---- MODULE Spec2Model ----
(***************************************************************************)
(* A model of hana: the CelestiaDA extension of the rollup fault-proof     *)
(* host and guest.                                                         *)
(*                                                                         *)
(*   guest   crates/oracle/src/provider.rs   OracleCelestiaProvider        *)
(*   adapter crates/celestia/src/{celestia,source}.rs                      *)
(*   host    bin/host/src/celestia/handler.rs CelestiaChainHintHandler     *)
(*                                                                         *)
(* Byte strings are sequences of 0..255.  Hashing and the three proof      *)
(* systems (NMT share proofs, binary Merkle proofs, Merkle-Patricia        *)
(* proofs) are ideal: keccak256 is injective, and a proof object names the *)
(* one statement it proves, so verification succeeds exactly when the      *)
(* verifier's statement is that statement.                                 *)
(***************************************************************************)
EXTENDS Integers, Sequences, FiniteSets, TLC

VARIABLES
    \* ---- guest: one OracleCelestiaProvider::blob_get call
    g_pc,          \* "start" | "hinted" | "done"
    g_req,         \* [height, commitment] the call was given
    g_hint,        \* the hint sent over the hint channel, or NoHint
    g_read,        \* the oracle's reply to the preimage read, or NoResult
    g_result,      \* the call's outcome, or NoResult
    \* ---- adapter: CelestiaDADataSource over the base source
    a_data,        \* CelestiaDASource.data
    a_open,        \* CelestiaDASource.open
    a_eth_open,    \* the base source has state loaded (cleared by clear())
    a_calls,       \* blob_get calls made by the latest next(): <<[height, commitment]>>
    a_fetched,     \* outcome of the latest blob_get call inside next(), or NoResult
    a_record,      \* the record the base source returned to the latest next()
    a_result,      \* what the latest next() returned, or NoResult
    a_prev,        \* [data, open] as they were when the latest next() was entered,
                   \* and whether clear() was the call before it
    a_nexts,       \* number of next() calls so far
    \* ---- host: CelestiaChainHintHandler::fetch_hint and the store
    kv,            \* the shared key-value store: key -> bytes
    h_pc,          \* position of fetch_hint
    h_hint,        \* the hint being handled
    h_loc,         \* fetch_hint's locals
    h_verified,    \* local verifications that have succeeded in this handling
    h_result,      \* what fetch_hint returned: "Ok" | "Err" | "Panic" | "none"
    h_lock,        \* the store's write lock is held by fetch_hint
    h_hints,       \* number of hints handled so far
    h_rpcs,        \* the network calls of this handling, in order: <<[call, ok]>>
    h_kv0,         \* the store as it was when the hint of this handling arrived
    l1_head,       \* the settlement chain's latest block number
    c_pc,          \* client blob_get against the host: "idle" | "hinted" | "acked" | "done"
    c_req,         \* the client's [height, commitment]
    c_read,        \* the host's reply to the client's preimage read, or NoResult
    c_result,      \* the client's blob_get outcome, or NoResult
    \* ---- one find_data_commitment call, window by window
    s_pc,          \* "idle" | "scan" | "done"
    s_height,      \* celestia_height
    s_head,        \* eth_block_height, the answer of get_block_number
    s_start,       \* start
    s_end,         \* end
    s_windows,     \* the get_logs filters sent so far: <<[from_block, to_block]>>
    s_result,      \* the call's outcome, or NoResult
    \* ---- one application of a pure function
    f_op,          \* the function applied, or "none"
    f_in,          \* its arguments
    f_out,         \* its result
    \* ---- native mode: the two tasks of start_native
    n_server,      \* the server task: "running" | "Ok" | "Err"
    n_client,      \* the client task: "running" | "Ok" | "Err" | "Panic"
    n_exit         \* how start_native ended, or NoResult

guest_vars == <<g_pc, g_req, g_hint, g_read, g_result>>
adapter_vars == <<a_data, a_open, a_eth_open, a_calls, a_fetched, a_record, a_result, a_prev, a_nexts>>
host_vars == <<kv, h_pc, h_hint, h_loc, h_verified, h_result, h_lock, h_hints, h_rpcs, h_kv0, l1_head, c_pc, c_req, c_read, c_result>>
scan_vars == <<s_pc, s_height, s_head, s_start, s_end, s_windows, s_result>>
fn_vars == <<f_op, f_in, f_out>>
native_vars == <<n_server, n_client, n_exit>>
vars == <<guest_vars, adapter_vars, host_vars, scan_vars, fn_vars, native_vars>>

----------------------------------------------------------------------------
(* Bytes and integers                                                      *)

Fill(n, v) == [i \in 1..n |-> v]

\* the n low-order bytes of x, least significant first
RECURSIVE LowBytes(_, _)
LowBytes(x, n) == IF n = 0 THEN <<>> ELSE <<x % 256>> \o LowBytes(x \div 256, n - 1)

Reverse(s) == [i \in 1..Len(s) |-> s[Len(s) + 1 - i]]

\* u64::to_le_bytes / u64::to_be_bytes / u64::from_le_bytes
to_le_bytes(x) == LowBytes(x, 8)
to_be_bytes(x) == Reverse(LowBytes(x, 8))

RECURSIVE from_le_bytes(_)
from_le_bytes(b) == IF b = <<>> THEN 0 ELSE b[1] + 256 * from_le_bytes(Tail(b))

\* U256::to_be_bytes::<32> for values below 2^64
to_be_bytes32(x) == Fill(24, 0) \o to_be_bytes(x)

\* slice[lo..hi] of a Rust slice (0-based, hi exclusive), in 1-based sequences
Slice(b, lo, hi) == SubSeq(b, lo + 1, hi)

Range(s) == {s[i] : i \in DOMAIN s}

RECURSIVE Flatten(_)
Flatten(rows) == IF rows = <<>> THEN <<>> ELSE Head(rows) \o Flatten(Tail(rows))

\* alloy_primitives::keccak256, ideal
keccak256(b) == <<"keccak256", b>>

\* alloy_trie::Nibbles::unpack
Nibbles_unpack(h) == <<"nibbles", h>>

\* kona_preimage::PreimageKey::new(hash, key_type)
PreimageKey(hash, ty) == [ty |-> ty, hash |-> hash]

NoResult == [kind |-> "none"]
NoHint == [ty |-> "none", data |-> <<>>]
Ok(v) == [kind |-> "Ok", value |-> v]
Err(m) == [kind |-> "Err", msg |-> m]
Panic(m) == [kind |-> "Panic", msg |-> m]

----------------------------------------------------------------------------
(* 32-byte values (Commitment, Hash, B256) are kept by name; as_bytes gives *)
(* the 32 bytes of each.                                                    *)

Commitments == {"cA", "cB"}
DataRoots == {"R1", "R2"}
DataCommitments == {"D1", "D2"}
StorageRoots == {"S1", "SX"}

as_bytes(x) ==
    IF x = "S0" THEN Fill(32, 169) ELSE
    IF x = "D0" THEN <<0>> \o Fill(31, 208) ELSE
    Fill(32, CASE x = "cA" -> 17  [] x = "cB" -> 34
               [] x = "R1" -> 1   [] x = "R2" -> 2
               [] x = "D1" -> 209 [] x = "D2" -> 210
               [] x = "S1" -> 170 [] x = "SX" -> 187)

----------------------------------------------------------------------------
(* The world the proofs speak about: two CelestiaDA blocks, the Blobstream  *)
(* ranges attesting them, and the Blobstream contract's storage.           *)

Heights == {42, 43}
Requests == [height : Heights, commitment : Commitments]

BlobA == <<222, 173, 190, 239>>
BlobB == <<202, 254>>

RootAt(h) == IF h = 42 THEN "R1" ELSE "R2"

\* a share: the blob bytes it carries, and the share commitments of the
\* pay-for-blob message read from it (none for a padding share)
ShareA == [commitments |-> <<"cA">>, data |-> BlobA]
ShareB == [commitments |-> <<"cB">>, data |-> BlobB]
ShareM == [commitments |-> <<"cB", "cA">>, data |-> BlobB]
SharePad == [commitments |-> <<>>, data |-> <<>>]

\* the original data square under each data root, row by row; the extended
\* square has EdsSize rows
EdsSize == 4
Square(root) ==
    IF root = "R1" THEN <<SharePad, ShareA, ShareB, SharePad>>
    ELSE <<SharePad, ShareM, SharePad, ShareB>>

\* de-sharing: the bytes a run of shares carries
RECURSIVE DeShare(_)
DeShare(shares) == IF shares = <<>> THEN <<>> ELSE Head(shares).data \o DeShare(Tail(shares))

\* DataCommitmentStored events of the Blobstream contract
Event1 == [proof_nonce |-> 1, start_block |-> 40, end_block |-> 43, data_commitment |-> "D1"]
Event2 == [proof_nonce |-> 2, start_block |-> 43, end_block |-> 50, data_commitment |-> "D2"]
Events == {Event1, Event2}
Nonces == {1, 2}

\* "S1" is the Blobstream contract's storage root on the settlement chain;
\* "SX" is the root of a trie that belongs to no settlement-chain block
StoredCommitment(root, nonce) ==
    IF root = "S1"
    THEN (IF nonce = 1 THEN "D1" ELSE "D2")
    ELSE (IF nonce = 1 THEN "D2" ELSE "D1")

\* the leaf of a binary Merkle tree of data-root tuples: abi.encode(height, dataRoot)
TupleLeaf(height, data_root) ==
    Fill(24, 0) \o Reverse(LowBytes(height, 8)) \o as_bytes(data_root)

\* the storage trie's path of state_dataCommitments[nonce], and its leaf
\* value: the RLP string of the stored word without its leading zero bytes
SlotOf(nonce) ==
    <<"keccak256", Fill(24, 0) \o Reverse(LowBytes(nonce, 8))
                       \o Fill(24, 0) \o Reverse(LowBytes(254, 8))>>
TrieKey(nonce) == <<"nibbles", <<"keccak256", SlotOf(nonce)>>>>

RECURSIVE StripLeadingZeros(_)
StripLeadingZeros(b) ==
    IF b # <<>> /\ b[1] = 0 THEN StripLeadingZeros(Tail(b)) ELSE b

TrieLeafValue(v) ==
    LET t == StripLeadingZeros(v)
    IN  IF Len(t) = 1 /\ t[1] < 128 THEN t ELSE <<128 + Len(t)>> \o t

\* The proofs that exist, one for every true statement.  A proof object
\* names its statement:
\*   share proof    [shares, root]          shares lie under data root `root`
\*   tuple proof    [height, data_root, root]  the tuple is a leaf under `root`
\*   storage proof  [root, nonce, stored]   state_dataCommitments[nonce] = stored under `root`
MaxProofShares == 2

TrueShareProofs ==
    {[shares |-> SubSeq(Square(t[1]), t[2], t[3]), root |-> t[1]] :
        t \in {u \in DataRoots \X (1..4) \X (1..4) :
                  /\ u[2] <= u[3]
                  /\ u[3] <= Len(Square(u[1]))
                  /\ u[3] - u[2] < MaxProofShares}}

TrueTupleProofs ==
    {[height |-> t[1], data_root |-> RootAt(t[1]), root |-> t[2].data_commitment] :
        t \in {u \in Heights \X Events :
                  u[2].start_block <= u[1] /\ u[1] < u[2].end_block}}

TrueStorageProofs ==
    {[root |-> r, nonce |-> n, stored |-> StoredCommitment(r, n)] :
        r \in StorageRoots, n \in Nonces}

\* a proof with a byte altered proves nothing
BrokenShareProof == [shares |-> <<ShareA>>, root |-> "none"]
BrokenTupleProof == [height |-> 0, data_root |-> "none", root |-> "none"]
BrokenStorageProof == [root |-> "none", nonce |-> 0, stored |-> "none"]

\* celestia_types::ShareProof::verify(data_root)
ShareProof_verify(share_proof, data_root) == share_proof.root = data_root

\* celestia_types::MerkleProof::verify(leaf, root)
MerkleProof_verify(proof, leaf, root) ==
    /\ proof.root = root
    /\ proof.root \in DataCommitments
    /\ leaf = TupleLeaf(proof.height, proof.data_root)

\* alloy_trie::proof::verify_proof(root, key, Some(expected), proof)
verify_proof(root, nibbles, expected, proof) ==
    /\ proof.root = root
    /\ proof.root \in StorageRoots \cup {"S0"}
    /\ nibbles = TrieKey(proof.nonce)
    /\ expected = TrieLeafValue(as_bytes(proof.stored))

----------------------------------------------------------------------------
(* Proof primitives, the guest's copy: crates/blobstream/src/blobstream.rs  *)

DATA_COMMITMENTS_SLOT == 254

encode_data_root_tuple(height, data_root) ==
    Fill(24, 0) \o to_be_bytes(height) \o as_bytes(data_root)

calculate_mapping_slot(mapping_slot, key) ==
    keccak256(to_be_bytes32(key) \o to_be_bytes32(mapping_slot))

\* a variant of the guest's storage check that expects the commitment
\* without its RLP prefix
verify_data_commitment_storage_no_prefix(root, storage_proof, commitment_nonce, expected_commitment) ==
    LET slot == calculate_mapping_slot(DATA_COMMITMENTS_SLOT, commitment_nonce)
        nibbles == Nibbles_unpack(keccak256(slot))
    IN  verify_proof(root, nibbles, as_bytes(expected_commitment), storage_proof)

verify_data_commitment_storage(root, storage_proof, commitment_nonce, expected_commitment) ==
    LET slot == calculate_mapping_slot(DATA_COMMITMENTS_SLOT, commitment_nonce)
        nibbles == Nibbles_unpack(keccak256(slot))
        expected_with_prefix == <<160>> \o as_bytes(expected_commitment)
    IN  verify_proof(root, nibbles, expected_with_prefix, storage_proof)

----------------------------------------------------------------------------
(* The oracle payload and its codec.  The wire form is the sequence of the  *)
(* struct's fields in declaration order (bincode writes no names or tags).  *)

\* OraclePayload as the host builds and encodes it: payload.rs
OraclePayloadFields ==
    <<"blob", "data_root", "data_commitment", "data_root_tuple_proof",
      "share_proof", "proof_nonce", "storage_root", "storage_proof">>

\* the fields blob_get reads from the decoded payload: provider.rs; pfb_data
\* sits where BlobstreamProof declares it, after share_proof
GuestPayloadFields ==
    <<"blob", "data_root", "data_commitment", "data_root_tuple_proof",
      "share_proof", "pfb_data", "proof_nonce", "storage_root", "storage_proof">>

FieldIndex(fields, f) == CHOOSE i \in DOMAIN fields : fields[i] = f

\* bincode::serialize
to_bytes(p, fields) == [i \in 1..Len(fields) |-> p[fields[i]]]

\* a variant of the decoder that reads the second and third fields in the
\* other order
from_bytes_swapped(bytes, fields) ==
    IF Len(bytes) < Len(fields)
    THEN Err("io error: unexpected end of file")
    ELSE Ok([f \in Range(fields) |->
                bytes[IF FieldIndex(fields, f) = 2 THEN 3
                      ELSE IF FieldIndex(fields, f) = 3 THEN 2
                      ELSE FieldIndex(fields, f)]])

\* bincode::deserialize: reads the fields in order, fails on a short input,
\* and does not look at what follows the last field
from_bytes(bytes, fields) ==
    IF Len(bytes) < Len(fields)
    THEN Err("io error: unexpected end of file")
    ELSE Ok([f \in Range(fields) |-> bytes[FieldIndex(fields, f)]])

----------------------------------------------------------------------------
(* Guest: OracleCelestiaProvider::blob_get                                  *)

\* celestia_types::Commitment::hash
hash(commitment) == as_bytes(commitment)

\* lines 40-46: the hint data, and the hint
blob_get_encoded(height, commitment) == to_le_bytes(height) \o hash(commitment)

blob_get_hint(height, commitment) ==
    [ty |-> "CelestiaDA", data |-> blob_get_encoded(height, commitment)]

\* lines 50-55: the preimage key
blob_get_key(height, commitment) ==
    PreimageKey(keccak256(blob_get_encoded(height, commitment)), "GlobalGeneric")

\* lines 65-75: namespace-data shares that are among the proof's shares
found_shares(payload) ==
    LET proof_shares == Range(payload.share_proof.shares)
        rows == payload.pfb_data
        cells == UNION {{<<i, j>> : j \in DOMAIN rows[i]} : i \in DOMAIN rows}
    IN  Cardinality({c \in cells : rows[c[1]][c[2]] \in proof_shares})

\* sov_celestia_adapter::parse_pfb_namespace: every share of the pay-for-blob
\* namespace carries one MsgPayForBlobs
parse_pfb_namespace(shares_vec) ==
    IF \E i \in DOMAIN shares_vec : shares_vec[i].commitments = <<>>
    THEN Err("not a pay-for-blob share")
    ELSE Ok([i \in DOMAIN shares_vec |->
                [share_commitments |->
                    [k \in DOMAIN shares_vec[i].commitments |->
                        as_bytes(shares_vec[i].commitments[k])]]])

find_pfb_with_commitment(namespace_data, target_commitment) ==
    LET parsed == parse_pfb_namespace(Flatten(namespace_data))
    IN  IF parsed.kind # "Ok" THEN parsed
        ELSE LET matched_pfbs ==
                     SelectSeq(parsed.value,
                               LAMBDA pfb : \E k \in DOMAIN pfb.share_commitments :
                                   pfb.share_commitments[k] = hash(target_commitment))
             IN  IF Len(matched_pfbs) = 0 THEN Err("no matching pfbs found")
                 ELSE Ok(matched_pfbs)

\* a variant of blob_get in which the storage proof is not checked
blob_get_no_storage_check(height, commitment, oracle_result) ==
    LET decoded == IF oracle_result.kind = "Ok"
                   THEN from_bytes(oracle_result.value, GuestPayloadFields)
                   ELSE oracle_result
    IN  IF decoded.kind # "Ok" THEN {Err("preimage oracle")}
        ELSE IF /\ ShareProof_verify(decoded.value.share_proof, decoded.value.data_root)
                /\ MerkleProof_verify(decoded.value.data_root_tuple_proof,
                                      encode_data_root_tuple(height, decoded.value.data_root),
                                      decoded.value.data_commitment)
        THEN {Ok(decoded.value.blob)}
        ELSE {Err("share proof")}

\* lines 50-121, given the oracle's reply to the preimage read (Ok(bytes) or
\* Err): the set of outcomes (two where the build decides: the usize
\* subtraction on line 78)
blob_get(height, commitment, oracle_result) ==
    LET decoded == IF oracle_result.kind = "Ok"
                   THEN from_bytes(oracle_result.value, GuestPayloadFields)
                   ELSE oracle_result
    IN  IF oracle_result.kind # "Ok"
        THEN {Err("preimage oracle")}
        ELSE IF decoded.kind # "Ok"
        THEN {Panic("Failed to deserialize Celestia Oracle Payload")}
        ELSE
        LET payload == decoded.value
            n_shares == Len(payload.share_proof.shares)
            found == found_shares(payload)
            pfbs == find_pfb_with_commitment(payload.pfb_data, commitment)
        IN  IF found > n_shares
            THEN {Panic("attempt to subtract with overflow"),
                  Err("proof shares not found to be in namespace data")}
            ELSE IF n_shares - found > 0
            THEN {Err("proof shares not found to be in namespace data")}
            ELSE IF pfbs.kind # "Ok"
            THEN {Panic("Failed to find pfb with commitment")}
            ELSE IF \E i \in DOMAIN pfbs.value :
                        pfbs.value[i].share_commitments[1] # hash(commitment)
            THEN {Err("pfb did not contain the right commitment")}
            ELSE IF ~ShareProof_verify(payload.share_proof, payload.data_root)
            THEN {Err("share proof")}
            ELSE IF ~MerkleProof_verify(payload.data_root_tuple_proof,
                                        encode_data_root_tuple(height, payload.data_root),
                                        payload.data_commitment)
            THEN {Panic("Failed to verify data root tuple proof")}
            ELSE IF ~verify_data_commitment_storage(payload.storage_root,
                        payload.storage_proof, payload.proof_nonce,
                        payload.data_commitment)
            THEN {Panic("Failed to verify data commitment against Blobstream storage slot")}
            ELSE {Ok(payload.blob)}

----------------------------------------------------------------------------
(* What an untrusted oracle can hand the guest: every combination of field  *)
(* values, each proof either one that exists or a broken one.              *)

PfbDataValues ==
    {<<>>, <<<<ShareA>>>>, <<<<ShareB>>>>, <<<<ShareA, ShareB>>>>,
     <<<<ShareA>>, <<ShareA>>>>, <<<<ShareM>>>>}

GuestPayloads ==
    [blob : {BlobA, BlobB},
     data_root : DataRoots,
     data_commitment : DataCommitments,
     data_root_tuple_proof : TrueTupleProofs \cup {BrokenTupleProof},
     share_proof : TrueShareProofs \cup {BrokenShareProof},
     pfb_data : PfbDataValues,
     proof_nonce : Nonces,
     storage_root : StorageRoots,
     storage_proof : TrueStorageProofs \cup {BrokenStorageProof}]

TruncatedBytes == <<BlobA, "R1">>

OracleResults == {to_bytes(p, GuestPayloadFields) : p \in GuestPayloads} \cup {TruncatedBytes}



\* a variant of the hint send in which a failed send is not returned and the
\* read follows all the same
GuestSendHintUnchecked ==
    /\ g_pc = "start"
    /\ \E sent \in BOOLEAN :
          /\ g_hint' = IF sent THEN blob_get_hint(g_req.height, g_req.commitment) ELSE g_hint
          /\ g_pc' = "hinted"
          /\ g_result' = g_result
    /\ UNCHANGED <<g_req, g_read, adapter_vars, host_vars, scan_vars, fn_vars, native_vars>>

\* lines 46-48: hint.send(oracle).await?
GuestSendHint ==
    /\ g_pc = "start"
    /\ \E sent \in BOOLEAN :
          IF sent
          THEN /\ g_hint' = blob_get_hint(g_req.height, g_req.commitment)
               /\ g_pc' = "hinted"
               /\ g_result' = g_result
          ELSE /\ g_hint' = g_hint
               /\ g_pc' = "done"
               /\ g_result' = Err("hint channel")
    /\ UNCHANGED <<g_req, g_read, adapter_vars, host_vars, scan_vars, fn_vars, native_vars>>

\* lines 50-121: oracle.get(key).await?, then decoding and the checks
GuestReadPreimage ==
    /\ g_pc = "hinted"
    /\ \E reply \in {Ok(b) : b \in OracleResults} \cup {Err("channel closed")} :
          /\ g_read' = reply
          /\ g_result' \in blob_get(g_req.height, g_req.commitment, reply)
    /\ g_pc' = "done"
    /\ UNCHANGED <<g_req, g_hint, adapter_vars, host_vars, scan_vars, fn_vars, native_vars>>

GuestNext == GuestSendHint \/ GuestReadPreimage

----------------------------------------------------------------------------
(* Adapter: CelestiaDASource (source.rs) and CelestiaDADataSource           *)
(* (celestia.rs).  A source is [data, open].                                *)

Temporary(e) == [kind |-> "Err", severity |-> "Temporary", error |-> e]

\* celestia_types::Commitment::new
Commitment_new(hash_array) ==
    IF \E c \in Commitments : as_bytes(c) = hash_array
    THEN CHOOSE c \in Commitments : as_bytes(c) = hash_array
    ELSE "cOther"

\* a variant of load_blobs that leaves the source closed after a failed fetch
load_blobs_retrying(src, blob) ==
    IF src.open THEN src
    ELSE IF blob.kind = "Ok"
    THEN [data |-> Append(src.data, blob.value), open |-> TRUE]
    ELSE src

\* source.rs 59-84: load_blobs, given what blob_get returns if it is called
load_blobs(src, blob) ==
    IF src.open THEN src
    ELSE IF blob.kind = "Ok"
    THEN [data |-> Append(src.data, blob.value), open |-> TRUE]
    ELSE [data |-> src.data, open |-> TRUE]

\* source.rs 86-93: next_data
next_data(src) ==
    IF src.data = <<>>
    THEN [result |-> Temporary("Eof"), src |-> src]
    ELSE [result |-> Ok(Head(src.data)), src |-> [src EXCEPT !.data = Tail(src.data)]]

\* source.rs 41-50: CelestiaDASource::next.  [result, src, calls, fetched];
\* a panic inside blob_get unwinds through it
CelestiaDASource_next(src, height, commitment, blob) ==
    IF ~src.open /\ blob.kind = "Panic"
    THEN [result |-> blob, src |-> src,
          calls |-> <<[height |-> height, commitment |-> commitment]>>, fetched |-> blob]
    ELSE LET nd == next_data(load_blobs(src, blob))
         IN  [result |-> nd.result, src |-> nd.src,
              calls |-> IF src.open THEN <<>>
                        ELSE <<[height |-> height, commitment |-> commitment]>>,
              fetched |-> IF src.open THEN NoResult ELSE blob]

\* a variant of next in which byte[2] of the record is not looked at
CelestiaDADataSource_next_any_record(src, base, oracle_result) ==
    LET pointer_data == base.value
    IN  IF base.kind # "Ok" \/ Len(pointer_data) < 43
        THEN {[result |-> Temporary("EndOfSource"), src |-> src, calls |-> <<>>,
               fetched |-> NoResult]}
        ELSE {CelestiaDASource_next(src, from_le_bytes(Slice(pointer_data, 3, 11)),
                                    Commitment_new(Slice(pointer_data, 11, 43)), blob) :
                 blob \in blob_get(from_le_bytes(Slice(pointer_data, 3, 11)),
                                   Commitment_new(Slice(pointer_data, 11, 43)),
                                   oracle_result)}

\* celestia.rs 58-84: CelestiaDADataSource::next, given the base source's
\* result and the oracle's reply to blob_get's read: the set of outcomes
CelestiaDADataSource_next(src, base, oracle_result) ==
    LET pointer_data == base.value
        quiet(r) == {[result |-> r, src |-> src, calls |-> <<>>, fetched |-> NoResult]}
    IN  IF base.kind # "Ok" THEN quiet(base)
        ELSE IF Len(pointer_data) < 3 THEN quiet(Panic("index out of bounds"))
        ELSE IF pointer_data[3] # 12 THEN quiet(Temporary("EndOfSource"))
        ELSE IF Len(pointer_data) < 43 THEN quiet(Panic("range end index out of range"))
        ELSE LET height == from_le_bytes(Slice(pointer_data, 3, 11))
                 commitment == Commitment_new(Slice(pointer_data, 11, 43))
             IN  {CelestiaDASource_next(src, height, commitment, blob) :
                     blob \in blob_get(height, commitment, oracle_result)}

\* a variant of clear that empties the queue and leaves the open flag
CelestiaDASource_clear_data_only(src) == [data |-> <<>>, open |-> src.open]

\* source.rs 52-56: clear
CelestiaDASource_clear(src) == [data |-> <<>>, open |-> FALSE]

\* pointer records the batcher can have written, and other base-source data
Pointer(height, commitment) == <<1, 0, 12>> \o to_le_bytes(height) \o hash(commitment)
OtherRecord == <<1, 0, 0>> \o to_le_bytes(42) \o hash("cA")
FrameRecord == <<0, 7, 7, 7>>
ShortRecord == <<1, 0>>
ShortPointer == <<1, 0, 12, 42>>
BaseRecords ==
    {Pointer(r.height, r.commitment) : r \in Requests}
        \cup {OtherRecord, FrameRecord, ShortRecord, ShortPointer}
BaseResults == {Ok(r) : r \in BaseRecords} \cup {Temporary("Eof")}

\* the payload an honest, current oracle would serve for a request
EventFor(h) == CHOOSE e \in Events : e.start_block <= h /\ h < e.end_block
ShareFor(h, c) ==
    IF \E sh \in Range(Square(RootAt(h))) : sh.commitments = <<c>>
    THEN CHOOSE sh \in Range(Square(RootAt(h))) : sh.commitments = <<c>>
    ELSE ShareM
PfbRows(h) == <<SelectSeq(Square(RootAt(h)), LAMBDA sh : sh.commitments # <<>>)>>
GoodPayload(r) ==
    [blob |-> ShareFor(r.height, r.commitment).data,
     data_root |-> RootAt(r.height),
     data_commitment |-> EventFor(r.height).data_commitment,
     data_root_tuple_proof |->
         [height |-> r.height, data_root |-> RootAt(r.height),
          root |-> EventFor(r.height).data_commitment],
     share_proof |-> [shares |-> <<ShareFor(r.height, r.commitment)>>, root |-> RootAt(r.height)],
     pfb_data |-> PfbRows(r.height),
     proof_nonce |-> EventFor(r.height).proof_nonce,
     storage_root |-> "S1",
     storage_proof |-> [root |-> "S1", nonce |-> EventFor(r.height).proof_nonce,
                        stored |-> EventFor(r.height).data_commitment]]

\* what the oracle can answer the adapter's blob_get with
AdapterPayloads ==
    {GoodPayload(r) : r \in Requests}
        \cup {[GoodPayload(r) EXCEPT !.share_proof = BrokenShareProof] : r \in Requests}
        \cup {[GoodPayload(r) EXCEPT !.storage_proof = BrokenStorageProof] : r \in Requests}
AdapterOracleResults ==
    {Ok(to_bytes(p, GuestPayloadFields)) : p \in AdapterPayloads}
        \cup {Ok(TruncatedBytes), Err("channel closed")}

MaxNexts == 3

\* DataAvailabilityProvider::next
AdapterNext ==
    /\ a_result.kind # "Panic"
    /\ a_nexts < MaxNexts
    /\ \E base \in BaseResults, oracle_result \in AdapterOracleResults :
         \E out \in CelestiaDADataSource_next([data |-> a_data, open |-> a_open],
                                              base, oracle_result) :
            /\ a_data' = out.src.data
            /\ a_open' = out.src.open
            /\ a_calls' = out.calls
            /\ a_fetched' = out.fetched
            /\ a_record' = base
            /\ a_result' = out.result
    /\ a_eth_open' = TRUE
    /\ a_prev' = [data |-> a_data, open |-> a_open,
                  cleared |-> a_result.kind = "none" /\ a_prev.cleared]
    /\ a_nexts' = a_nexts + 1
    /\ UNCHANGED <<guest_vars, host_vars, scan_vars, fn_vars, native_vars>>

\* DataAvailabilityProvider::clear (celestia.rs 86-89)
AdapterClear ==
    /\ a_result.kind # "Panic"
    /\ a_data' = CelestiaDASource_clear([data |-> a_data, open |-> a_open]).data
    /\ a_open' = CelestiaDASource_clear([data |-> a_data, open |-> a_open]).open
    /\ a_eth_open' = FALSE
    /\ a_calls' = <<>>
    /\ a_fetched' = NoResult
    /\ a_record' = NoResult
    /\ a_result' = NoResult
    /\ a_prev' = [data |-> a_data', open |-> a_open', cleared |-> TRUE]
    /\ UNCHANGED <<a_nexts, guest_vars, host_vars, scan_vars, fn_vars, native_vars>>

AdapterNextStep == AdapterNext \/ AdapterClear


----------------------------------------------------------------------------
(* Proof primitives, the host's copy: crates/oracle/src/payload.rs          *)

\* payload.rs 9
payload_DATA_COMMITMENTS_SLOT == 254

\* a variant of the encoding that writes the height least significant byte first
payload_encode_data_root_tuple_le(height, data_root) ==
    Fill(24, 0) \o to_le_bytes(height) \o as_bytes(data_root)

payload_encode_data_root_tuple(height, data_root) ==
    Fill(24, 0) \o to_be_bytes(height) \o as_bytes(data_root)

\* a variant of the slot computation that hashes the slot before the key
payload_calculate_mapping_slot_slot_first(mapping_slot, key) ==
    keccak256(to_be_bytes32(mapping_slot) \o to_be_bytes32(key))

payload_calculate_mapping_slot(mapping_slot, key) ==
    keccak256(to_be_bytes32(key) \o to_be_bytes32(mapping_slot))

\* a variant of the storage check that accepts every proof
payload_verify_data_commitment_storage_unchecked(root, storage_proof, commitment_nonce, expected_commitment) ==
    TRUE

payload_verify_data_commitment_storage(root, storage_proof, commitment_nonce, expected_commitment) ==
    LET slot == payload_calculate_mapping_slot(payload_DATA_COMMITMENTS_SLOT, commitment_nonce)
        nibbles == Nibbles_unpack(keccak256(slot))
        expected_with_prefix == <<160>> \o as_bytes(expected_commitment)
    IN  verify_proof(root, nibbles, expected_with_prefix, storage_proof)

----------------------------------------------------------------------------
(* What the host's two RPC endpoints hold                                   *)

\* the blobs of the rollup's namespace at each height: index is the position
\* of the blob's first share in the extended square
BlobsAt(height) ==
    IF height = 42
    THEN {[commitment |-> "cA", data |-> BlobA, index |-> 1, shares_len |-> 1],
          [commitment |-> "cB", data |-> BlobB, index |-> 4, shares_len |-> 1]}
    ELSE {[commitment |-> "cB", data |-> BlobB, index |-> 5, shares_len |-> 1]}

\* blob.Get
Node_blob_get(height, commitment) ==
    IF \E b \in BlobsAt(height) : b.commitment = commitment
    THEN Ok(CHOOSE b \in BlobsAt(height) : b.commitment = commitment)
    ELSE Err("blob: not found")

\* header.GetByHeight: the data availability header's hash and row roots
Node_header_get_by_height(height) ==
    Ok([height |-> height, data_root |-> RootAt(height), eds_size |-> EdsSize])

\* share.GetRange over the original data square, [start, end)
Node_share_get_range(header, start, end) ==
    IF start < end /\ end <= Len(Square(header.data_root))
    THEN Ok([shares |-> SubSeq(Square(header.data_root), start + 1, end),
             root |-> header.data_root])
    ELSE Err("share: range out of bounds")

\* blobstream.GetDataRootTupleInclusionProof(height, start, end)
Node_get_data_root_tuple_inclusion_proof(height, start, end) ==
    IF \E e \in Events : e.start_block = start /\ e.end_block = end
                            /\ start <= height /\ height < end
    THEN Ok([height |-> height, data_root |-> RootAt(height),
             root |-> (CHOOSE e \in Events :
                          e.start_block = start /\ e.end_block = end).data_commitment])
    ELSE Err("blobstream: height outside the range")

\* the settlement-chain block that logged each DataCommitmentStored event
LogBlock(e) == IF e = Event1 THEN 100 ELSE 6000
LatestBlocks == {3000, 12000}

\* eth_getLogs over [from_block, to_block] when the chain's head is `head`
Eth_get_logs(from_block, to_block, head) ==
    {e \in Events : from_block <= LogBlock(e) /\ LogBlock(e) <= to_block
                      /\ LogBlock(e) <= head}

\* the Blobstream contract's storage root at the block `head`: "S0" before
\* the second range was committed, "S1" after
StorageRootAt(head) == IF head < LogBlock(Event2) THEN "S0" ELSE "S1"

\* eth_getProof(blobstream_address, [slot]) at the block `head`: storage_hash
\* and storage_proof; the proof of a slot not yet written proves nothing
\* about a commitment
Eth_get_proof(slot, head) ==
    [storage_hash |-> StorageRootAt(head),
     storage_proof |->
        <<IF \E e \in Events : SlotOf(e.proof_nonce) = slot /\ LogBlock(e) <= head
          THEN LET e == CHOOSE e \in Events : SlotOf(e.proof_nonce) = slot
               IN  [root |-> StorageRootAt(head), nonce |-> e.proof_nonce,
                    stored |-> e.data_commitment]
          ELSE BrokenStorageProof>>]

\* the storage proofs the settlement chain can serve
ChainStorageProofs ==
    {Eth_get_proof(SlotOf(e.proof_nonce), head).storage_proof[1] :
        e \in Events, head \in LatestBlocks} \ {BrokenStorageProof}

----------------------------------------------------------------------------
(* Host: CelestiaChainHintHandler::fetch_hint (handler.rs) and              *)
(* OnlineCelestiaProvider::find_data_commitment (online_provider.rs)        *)

FILTER_BLOCK_RANGE == 5000

\* a variant of the window computation that does not move below a window
\* that ends within the first FILTER_BLOCK_RANGE blocks
window_start_stuck(end) == IF end > FILTER_BLOCK_RANGE THEN end - FILTER_BLOCK_RANGE ELSE end

\* online_provider.rs 93-97 and 156-160
window_start(end) == IF end > FILTER_BLOCK_RANGE THEN end - FILTER_BLOCK_RANGE ELSE 0

\* a variant of the loop body that gives up after one window
scan_step_one_window(celestia_height, start, end, head) ==
    LET hits == {e \in Eth_get_logs(start, end, head) :
                    e.start_block <= celestia_height /\ celestia_height < e.end_block}
    IN  IF hits # {} THEN Ok(CHOOSE e \in hits : TRUE)
        ELSE Err("No matching event found for the given Celestia height")

\* online_provider.rs 100-160: one turn of the scan loop over the window
\* [start, end]: Ok(event), the no-match error, or the next window
scan_step(celestia_height, start, end, head) ==
    LET logs == Eth_get_logs(start, end, head)
        hits == {e \in logs : e.start_block <= celestia_height
                                /\ celestia_height < e.end_block}
    IN  IF hits # {}
        THEN Ok(CHOOSE e \in hits : \A f \in hits : LogBlock(e) <= LogBlock(f))
        ELSE IF start = 0
        THEN Err("No matching event found for the given Celestia height")
        ELSE [kind |-> "Continue", start |-> window_start(start), end |-> start]

\* online_provider.rs 99-161: the scan loop from the window [start, end]
RECURSIVE scan_events(_, _, _, _)
scan_events(celestia_height, start, end, head) ==
    LET r == scan_step(celestia_height, start, end, head)
    IN  IF r.kind = "Continue" THEN scan_events(celestia_height, r.start, r.end, head)
        ELSE r

\* online_provider.rs 80-162, given eth_getBlockNumber's answer
find_data_commitment(celestia_height, eth_block_height) ==
    scan_events(celestia_height, window_start(eth_block_height), eth_block_height,
                eth_block_height)

\* handler.rs 88-95: the share range of the blob, in u64 arithmetic: the set
\* of outcomes (two where the build decides: a subtraction below zero panics
\* with overflow checks and wraps without them)
share_range(index, eds_size, shares_len) ==
    LET ods_size == eds_size \div 2
        div_ceil == (index + eds_size - 1) \div eds_size
        first_row_index == div_ceil - 1
    IN  IF eds_size = 0 THEN {Panic("attempt to divide by zero")}
        ELSE IF div_ceil = 0
        THEN {Panic("attempt to subtract with overflow"),
              Ok([start_index |-> index + ods_size,
                  end_index |-> index + ods_size + shares_len])}
        ELSE {Ok([start_index |-> index - first_row_index * ods_size,
                  end_index |-> index - first_row_index * ods_size + shares_len])}

\* handler.rs 209, 225-227: the key the payload is stored under; the
\* variant before it hashes the commitment alone
fetch_hint_key_commitment_only(hint) ==
    PreimageKey(keccak256(Slice(hint.data, 8, 40)), "GlobalGeneric")

fetch_hint_key(hint) == PreimageKey(keccak256(hint.data), "GlobalGeneric")

\* handler.rs 211-222: OraclePayload::new(...)
OraclePayload_new(blob, data_root, data_commitment, data_root_tuple_proof, share_proof, proof_nonce, storage_root, storage_proof) ==
    [blob |-> blob, data_root |-> data_root, data_commitment |-> data_commitment,
     data_root_tuple_proof |-> data_root_tuple_proof, share_proof |-> share_proof,
     proof_nonce |-> proof_nonce, storage_root |-> storage_root,
     storage_proof |-> storage_proof]

\* KeyValueStore::set
kv_set(store, key, value) ==
    [k \in DOMAIN store \cup {key} |-> IF k = key THEN value ELSE store[k]]

None == "none"
EmptyLoc ==
    [height |-> 0, commitment |-> None, blob |-> None, data_root |-> None,
     eds_size |-> 0, start_index |-> 0, end_index |-> 0, share_proof |-> None,
     event |-> None, data_root_proof |-> None, storage_hash |-> None,
     storage_proof |-> None]

MaxHints == 2



host_frame == <<kv, h_hint, h_lock, h_hints, h_kv0, l1_head, c_pc, c_req, c_read, c_result, guest_vars, adapter_vars, scan_vars, fn_vars, native_vars>>

\* fetch_hint returns (Ok(()), Err by `?`/bail!/ensure!) or unwinds (Panic by
\* expect/unwrap/indexing)
HostEnd(result) ==
    /\ h_pc' = "done"
    /\ h_result' = result
    /\ UNCHANGED <<h_loc, h_verified>>

\* fetch_hint goes on to its next await point
HostGo(pc, loc, verified) ==
    /\ h_pc' = pc
    /\ h_loc' = loc
    /\ h_verified' = verified
    /\ h_result' = h_result

\* provider.rs 46-48: the client's blob_get sends its hint, which the host's
\* hint router hands to fetch_hint
ClientSendHint ==
    /\ c_pc \in {"idle", "done"}
    /\ n_client = "running"
    /\ h_pc = "idle"
    /\ h_hints < MaxHints
    /\ \E r \in Requests :
          /\ c_req' = r
          /\ h_hint' = blob_get_hint(r.height, r.commitment)
    /\ c_pc' = "hinted"
    /\ c_read' = NoResult
    /\ c_result' = NoResult
    /\ h_pc' = "start"
    /\ h_loc' = EmptyLoc
    /\ h_verified' = {}
    /\ h_result' = "none"
    /\ h_hints' = h_hints + 1
    /\ h_rpcs' = <<>>
    /\ h_kv0' = kv
    /\ UNCHANGED <<kv, h_lock, l1_head, guest_vars, adapter_vars, scan_vars, fn_vars, native_vars>>

\* a client that sends a CelestiaDA hint carrying the commitment alone
ClientSendShortHint ==
    /\ c_pc \in {"idle", "done"}
    /\ n_client = "running"
    /\ h_pc = "idle"
    /\ h_hints < MaxHints
    /\ \E c \in Commitments :
          /\ c_req' = [height |-> 0, commitment |-> c]
          /\ h_hint' = [ty |-> "CelestiaDA", data |-> hash(c)]
    /\ c_pc' = "hinted"
    /\ c_read' = NoResult
    /\ c_result' = NoResult
    /\ h_pc' = "start"
    /\ h_loc' = EmptyLoc
    /\ h_verified' = {}
    /\ h_result' = "none"
    /\ h_hints' = h_hints + 1
    /\ h_rpcs' = <<>>
    /\ h_kv0' = kv
    /\ UNCHANGED <<kv, h_lock, l1_head, guest_vars, adapter_vars, scan_vars, fn_vars, native_vars>>

\* a variant of the first step that takes hint data of any length of 32 or
\* more, reading the commitment from its last 32 bytes
HostStartAnyLength ==
    /\ h_pc = "start"
    /\ h_hint.ty = "CelestiaDA"
    /\ IF Len(h_hint.data) < 32
       THEN HostEnd("Err")
       ELSE HostGo("blob_get",
                   [h_loc EXCEPT !.height = 42,
                                 !.commitment = Commitment_new(SubSeq(h_hint.data,
                                     Len(h_hint.data) - 31, Len(h_hint.data)))],
                   h_verified)
    /\ UNCHANGED <<h_rpcs, host_frame>>

\* handler.rs 60-66
HostStart ==
    /\ h_pc = "start"
    /\ h_hint.ty = "CelestiaDA"
    /\ IF Len(h_hint.data) # 40
       THEN HostEnd("Err")
       ELSE HostGo("blob_get",
                   [h_loc EXCEPT !.height = from_le_bytes(Slice(h_hint.data, 0, 8)),
                                 !.commitment = Commitment_new(Slice(h_hint.data, 8, 40))],
                   h_verified)
    /\ UNCHANGED <<h_rpcs, host_frame>>

\* handler.rs 68-76
HostBlobGet ==
    /\ h_pc = "blob_get"
    /\ \E resp \in {Node_blob_get(h_loc.height, h_loc.commitment), Err("rpc")} :
          /\ h_rpcs' = Append(h_rpcs, [call |-> "blob_get", ok |-> resp.kind = "Ok"])
          /\ IF resp.kind # "Ok"
             THEN HostEnd("Err")
             ELSE HostGo("header", [h_loc EXCEPT !.blob = resp.value], h_verified)
    /\ UNCHANGED host_frame

\* handler.rs 80-95
HostHeader ==
    /\ h_pc = "header"
    /\ \E resp \in {Node_header_get_by_height(h_loc.height), Err("rpc")} :
          /\ h_rpcs' = Append(h_rpcs, [call |-> "header_get_by_height", ok |-> resp.kind = "Ok"])
          /\ IF resp.kind # "Ok"
             THEN HostEnd("Err")
             ELSE \E r \in share_range(h_loc.blob.index, resp.value.eds_size,
                                       h_loc.blob.shares_len) :
                     IF r.kind # "Ok"
                     THEN HostEnd("Panic")
                     ELSE HostGo("share_get_range",
                                 [h_loc EXCEPT !.data_root = resp.value.data_root,
                                               !.eds_size = resp.value.eds_size,
                                               !.start_index = r.value.start_index,
                                               !.end_index = r.value.end_index],
                                 h_verified)
    /\ UNCHANGED host_frame

\* handler.rs 98-109
HostShareProof ==
    /\ h_pc = "share_get_range"
    /\ \E resp \in {Node_share_get_range(h_loc, h_loc.start_index, h_loc.end_index),
                    Ok(BrokenShareProof), Err("rpc")} :
          /\ h_rpcs' = Append(h_rpcs, [call |-> "share_get_range", ok |-> resp.kind = "Ok"])
          /\ IF resp.kind # "Ok"
             THEN HostEnd("Panic")
             ELSE IF ~ShareProof_verify(resp.value, h_loc.data_root)
             THEN HostEnd("Panic")
             ELSE HostGo("find_data_commitment",
                         [h_loc EXCEPT !.share_proof = resp.value],
                         h_verified \cup {"share"})
    /\ UNCHANGED host_frame

\* handler.rs 111-115
HostFindDataCommitment ==
    /\ h_pc = "find_data_commitment"
    /\ \E resp \in {find_data_commitment(h_loc.height, l1_head), Err("rpc")} :
          /\ h_rpcs' = Append(h_rpcs, [call |-> "find_data_commitment", ok |-> resp.kind = "Ok"])
          /\ IF resp.kind # "Ok"
             THEN HostEnd("Panic")
             ELSE HostGo("tuple_proof", [h_loc EXCEPT !.event = resp.value], h_verified)
    /\ UNCHANGED host_frame

\* handler.rs 119-129
HostTupleProof ==
    /\ h_pc = "tuple_proof"
    /\ \E resp \in {Node_get_data_root_tuple_inclusion_proof(h_loc.height,
                        h_loc.event.start_block, h_loc.event.end_block),
                    Ok(BrokenTupleProof), Err("rpc")} :
          /\ h_rpcs' = Append(h_rpcs, [call |-> "get_data_root_tuple_inclusion_proof", ok |-> resp.kind = "Ok"])
          /\ IF resp.kind # "Ok"
             THEN HostEnd("Err")
             ELSE IF ~MerkleProof_verify(resp.value,
                          payload_encode_data_root_tuple(h_loc.height, h_loc.data_root),
                          h_loc.event.data_commitment)
             THEN HostEnd("Panic")
             ELSE HostGo("get_proof", [h_loc EXCEPT !.data_root_proof = resp.value],
                         h_verified \cup {"tuple"})
    /\ UNCHANGED host_frame

\* handler.rs 134-152
HostGetProof ==
    /\ h_pc = "get_proof"
    /\ LET slot == payload_calculate_mapping_slot(payload_DATA_COMMITMENTS_SLOT,
                                                  h_loc.event.proof_nonce)
       IN  \E resp \in {Ok(Eth_get_proof(slot, l1_head)),
                        Ok([Eth_get_proof(slot, l1_head) EXCEPT !.storage_proof = <<BrokenStorageProof>>]),
                        Ok([Eth_get_proof(slot, l1_head) EXCEPT !.storage_proof = <<>>]),
                        Err("rpc")} :
              /\ h_rpcs' = Append(h_rpcs, [call |-> "get_proof", ok |-> resp.kind = "Ok"])
              /\ IF resp.kind # "Ok"
                 THEN HostEnd("Err")
                 ELSE HostGo("get_storage_at",
                             [h_loc EXCEPT !.storage_hash = resp.value.storage_hash,
                                           !.storage_proof = resp.value.storage_proof],
                             h_verified)
    /\ UNCHANGED host_frame

\* handler.rs 155-205: the direct verification of lines 186-193 is only printed
HostGetStorageAt ==
    /\ h_pc = "get_storage_at"
    /\ \E answered \in BOOLEAN :
          /\ h_rpcs' = Append(h_rpcs, [call |-> "get_storage_at", ok |-> answered])
          /\ IF ~answered
             THEN HostEnd("Err")
             ELSE IF h_loc.storage_proof = <<>>
             THEN HostEnd("Panic")
             ELSE IF ~payload_verify_data_commitment_storage(h_loc.storage_hash,
                          h_loc.storage_proof[1], h_loc.event.proof_nonce,
                          h_loc.event.data_commitment)
             THEN HostEnd("Err")
             ELSE HostGo("kv_write", h_loc, h_verified \cup {"storage"})
    /\ UNCHANGED host_frame

\* handler.rs 207: kv.write().await
HostAcquire ==
    /\ h_pc = "kv_write"
    /\ ~h_lock
    /\ h_lock' = TRUE
    /\ h_pc' = "locked"
    /\ UNCHANGED <<kv, h_hint, h_loc, h_verified, h_result, h_hints, h_rpcs, h_kv0, l1_head,
                   c_pc, c_req, c_read, c_result, guest_vars, adapter_vars, scan_vars, fn_vars, native_vars>>

\* a variant of the last step: Ok without the set
HostReturnWithoutSet ==
    /\ h_pc = "locked"
    /\ h_pc' = "done"
    /\ h_result' = "Ok"
    /\ h_lock' = FALSE
    /\ UNCHANGED <<kv, h_hint, h_loc, h_verified, h_hints, h_rpcs, h_kv0, l1_head,
                   c_pc, c_req, c_read, c_result, guest_vars, adapter_vars, scan_vars, fn_vars, native_vars>>

\* a variant of the last step in which a failing exit keeps the lock
HostSetAndReturnHoldingLock ==
    /\ h_pc = "locked"
    /\ \E outcome \in {"Ok", "Err", "Panic"} :
          /\ h_result' = outcome
          /\ kv' = IF outcome = "Ok"
                   THEN kv_set(kv, fetch_hint_key(h_hint),
                               to_bytes(OraclePayload_new(h_loc.blob.data, h_loc.data_root,
                                            h_loc.event.data_commitment, h_loc.data_root_proof,
                                            h_loc.share_proof, h_loc.event.proof_nonce,
                                            h_loc.storage_hash, h_loc.storage_proof[1]),
                                        OraclePayloadFields))
                   ELSE kv
          /\ h_lock' = (outcome # "Ok")
    /\ h_pc' = "done"
    /\ UNCHANGED <<h_hint, h_loc, h_verified, h_hints, h_rpcs, h_kv0, l1_head,
                   c_pc, c_req, c_read, c_result, guest_vars, adapter_vars, scan_vars, fn_vars, native_vars>>

\* handler.rs 209-232: the payload is built (Panic if serialising fails) and
\* set (Err if the store refuses); the guard is dropped when fetch_hint
\* returns or unwinds
HostSetAndReturn ==
    /\ h_pc = "locked"
    /\ \E outcome \in {"Ok", "Err", "Panic"} :
          /\ h_result' = outcome
          /\ kv' = IF outcome = "Ok"
                   THEN kv_set(kv, fetch_hint_key(h_hint),
                               to_bytes(OraclePayload_new(h_loc.blob.data, h_loc.data_root,
                                            h_loc.event.data_commitment, h_loc.data_root_proof,
                                            h_loc.share_proof, h_loc.event.proof_nonce,
                                            h_loc.storage_hash, h_loc.storage_proof[1]),
                                        OraclePayloadFields))
                   ELSE kv
          /\ h_lock' = FALSE
    /\ h_pc' = "done"
    /\ UNCHANGED <<h_hint, h_loc, h_verified, h_hints, h_rpcs, h_kv0, l1_head,
                   c_pc, c_req, c_read, c_result, guest_vars, adapter_vars, scan_vars, fn_vars, native_vars>>

\* the settlement chain grows
ChainAdvance ==
    /\ h_pc # "off"
    /\ \E head \in LatestBlocks :
          /\ head > l1_head
          /\ l1_head' = head
    /\ UNCHANGED <<kv, h_pc, h_hint, h_loc, h_verified, h_result, h_lock, h_hints, h_rpcs,
                   h_kv0, c_pc, c_req, c_read, c_result, guest_vars, adapter_vars,
                   scan_vars, fn_vars, native_vars>>

\* the hint is acknowledged once fetch_hint has returned Ok
ServerAck ==
    /\ h_pc = "done"
    /\ h_result = "Ok"
    /\ c_pc = "hinted"
    /\ c_pc' = "acked"
    /\ h_pc' = "idle"
    /\ UNCHANGED <<kv, h_hint, h_loc, h_verified, h_result, h_lock, h_hints, h_rpcs, h_kv0, l1_head,
                   c_req, c_read, c_result, guest_vars, adapter_vars, scan_vars, fn_vars, native_vars>>

\* fetch_hint failed: the host stops and the client's hint.send fails
\* (provider.rs 48)
ServerFail ==
    /\ h_pc = "done"
    /\ h_result \in {"Err", "Panic"}
    /\ c_pc = "hinted"
    /\ c_pc' = "done"
    /\ c_result' = Err("hint channel")
    /\ h_pc' = "down"
    /\ n_server' = "Err"
    /\ UNCHANGED <<kv, h_hint, h_loc, h_verified, h_result, h_lock, h_hints, h_rpcs, h_kv0, l1_head,
                   c_req, c_read, guest_vars, adapter_vars, scan_vars, fn_vars, n_client, n_exit>>

\* provider.rs 50-121: the client reads the preimage from the host's store
\* and runs the guest's checks on it
ClientReadPreimage ==
    /\ c_pc = "acked"
    /\ LET key == blob_get_key(c_req.height, c_req.commitment)
           reply == IF key \in DOMAIN kv THEN Ok(kv[key]) ELSE Err("key not found")
       IN  /\ c_read' = reply
           /\ c_result' \in blob_get(c_req.height, c_req.commitment, reply)
    /\ c_pc' = "done"
    /\ UNCHANGED <<kv, h_pc, h_hint, h_loc, h_verified, h_result, h_lock, h_hints, h_rpcs, h_kv0, l1_head,
                   c_req, guest_vars, adapter_vars, scan_vars, fn_vars, native_vars>>

\* what the client's data source hands to the derivation pipeline for the
\* blob_get outcome c_result (source.rs 41-50, on a source not yet open)
ClientNextResult ==
    CelestiaDASource_next([data |-> <<>>, open |-> FALSE], c_req.height, c_req.commitment,
                          c_result).result

\* cfg.rs 128-132: the client task ends.  A panic inside blob_get unwinds
\* the task; otherwise the client program returns Ok or an error
ClientEnd ==
    /\ n_client = "running"
    /\ n_exit = NoResult
    /\ c_pc \in {"idle", "done"}
    /\ n_client' \in IF c_result.kind = "Panic" THEN {"Panic"} ELSE {"Ok", "Err"}
    /\ UNCHANGED <<host_vars, guest_vars, adapter_vars, scan_vars, fn_vars, n_server, n_exit>>

\* the client's ends of the two channels are dropped with its task
\* (cfg.rs 129-130): the server's reads fail and the server task returns
ServerClosed ==
    /\ n_server = "running"
    /\ n_client \in {"Ok", "Err", "Panic"}
    /\ n_exit = NoResult
    /\ n_server' \in {"Ok", "Err"}
    /\ UNCHANGED <<host_vars, guest_vars, adapter_vars, scan_vars, fn_vars, n_client, n_exit>>

Exit(code) == [kind |-> "exit", code |-> code]

\* a variant of the join in which either task's error makes the code 1
NativeJoinAnyError ==
    /\ n_exit = NoResult
    /\ \/ /\ n_client = "Panic"
          /\ n_exit' = Err("JoinError")
       \/ /\ n_client \in {"Ok", "Err"}
          /\ n_server \in {"Ok", "Err"}
          /\ n_exit' = Exit(IF n_client = "Err" \/ n_server = "Err" THEN 1 ELSE 0)
    /\ UNCHANGED <<host_vars, guest_vars, adapter_vars, scan_vars, fn_vars, n_server, n_client>>

\* cfg.rs 134-137: try_join! returns the first JoinError (a task that
\* panicked), which `?` hands to the caller, or both tasks' results once both
\* have completed; the exit code is client_result.is_err() as i32
NativeJoin ==
    /\ n_exit = NoResult
    /\ \/ /\ n_client = "Panic"
          /\ n_exit' = Err("JoinError")
       \/ /\ n_client \in {"Ok", "Err"}
          /\ n_server \in {"Ok", "Err"}
          /\ n_exit' = Exit(IF n_client = "Err" THEN 1 ELSE 0)
    /\ UNCHANGED <<host_vars, guest_vars, adapter_vars, scan_vars, fn_vars, n_server, n_client>>

HostNext ==
    \/ ClientSendHint
    \/ ClientSendShortHint
    \/ HostStart
    \/ HostBlobGet
    \/ HostHeader
    \/ HostShareProof
    \/ HostFindDataCommitment
    \/ HostTupleProof
    \/ HostGetProof
    \/ HostGetStorageAt
    \/ HostAcquire
    \/ HostSetAndReturn
    \/ ServerAck
    \/ ServerFail
    \/ ClientReadPreimage
    \/ ChainAdvance
    \/ ClientEnd
    \/ ServerClosed
    \/ NativeJoin

----------------------------------------------------------------------------
(* find_data_commitment window by window, and the pure functions applied    *)
(* to inputs of their own                                                   *)

ScanHeads == {0, 99, 100, 4999, 5000, 5001, 6000, 10000, 10001, 12000}
ScanHeights == {39, 40, 42, 43, 49, 50}
NoMatch == Err("No matching event found for the given Celestia height")

\* online_provider.rs 85-97: get_block_number and the first window
ScanStart ==
    /\ s_pc = "idle"
    /\ f_op = "none"
    /\ \E celestia_height \in ScanHeights, head \in ScanHeads, answered \in BOOLEAN :
          /\ s_height' = celestia_height
          /\ IF answered
             THEN /\ s_head' = head
                  /\ s_end' = head
                  /\ s_start' = window_start(head)
                  /\ s_pc' = "scan"
                  /\ s_result' = s_result
             ELSE /\ s_pc' = "done"
                  /\ s_result' = Err("rpc")
                  /\ UNCHANGED <<s_head, s_end, s_start>>
    /\ UNCHANGED <<s_windows, fn_vars, guest_vars, adapter_vars, host_vars, native_vars>>

\* online_provider.rs 99-161: one turn of the loop, get_logs included
ScanWindow ==
    /\ s_pc = "scan"
    /\ s_windows' = Append(s_windows, [from_block |-> s_start, to_block |-> s_end])
    /\ \E answered \in BOOLEAN :
          LET r == scan_step(s_height, s_start, s_end, s_head)
          IN  IF ~answered
              THEN /\ s_pc' = "done"
                   /\ s_result' = Err("rpc")
                   /\ UNCHANGED <<s_start, s_end>>
              ELSE IF r.kind = "Continue"
              THEN /\ s_start' = r.start
                   /\ s_end' = r.end
                   /\ UNCHANGED <<s_pc, s_result>>
              ELSE /\ s_pc' = "done"
                   /\ s_result' = r
                   /\ UNCHANGED <<s_start, s_end>>
    /\ UNCHANGED <<s_height, s_head, fn_vars, guest_vars, adapter_vars, host_vars, native_vars>>

\* the squares and the blob positions share_range is applied to: a blob
\* starts in the original data square, the upper left quarter of the
\* extended square
EdsSizes == {2, 4, 8}
BlobPositions ==
    {[eds_size |-> t[1], row |-> t[2], col |-> t[3]] :
        t \in {u \in EdsSizes \X (0..3) \X (0..3) :
                  u[2] < u[1] \div 2 /\ u[3] < u[1] \div 2}}
MaxSharesLen == 2

\* handler.rs 88-95 (and online_provider.rs 175-182)
ApplyShareRange ==
    /\ f_op = "none"
    /\ s_pc = "idle"
    /\ \E pos \in BlobPositions, shares_len \in 1..MaxSharesLen :
          LET index == pos.row * pos.eds_size + pos.col
          IN  /\ f_in' = [index |-> index, eds_size |-> pos.eds_size,
                          shares_len |-> shares_len, row |-> pos.row, col |-> pos.col]
              /\ f_out' \in share_range(index, pos.eds_size, shares_len)
    /\ f_op' = "share_range"
    /\ UNCHANGED <<scan_vars, guest_vars, adapter_vars, host_vars, native_vars>>

\* the storage tries verify_data_commitment_storage is applied to: a proof
\* [root, nonce, stored] is the valid proof of state_dataCommitments[nonce]
\* = stored under root; "D0" is a commitment whose first byte is 0x00
StoredWords == {"D1", "D0"}
StorageInputs ==
    [root : StorageRoots,
     storage_proof : [root : StorageRoots, nonce : Nonces, stored : StoredWords]
                        \cup {BrokenStorageProof},
     commitment_nonce : Nonces,
     expected_commitment : StoredWords]

\* blobstream.rs 148-169
ApplyVerifyStorage ==
    /\ f_op = "none"
    /\ s_pc = "idle"
    /\ \E in \in StorageInputs :
          /\ f_in' = in
          /\ f_out' = IF verify_data_commitment_storage(in.root, in.storage_proof,
                            in.commitment_nonce, in.expected_commitment)
                      THEN Ok(<<>>) ELSE Err("ProofVerificationError")
    /\ f_op' = "verify_data_commitment_storage"
    /\ UNCHANGED <<scan_vars, guest_vars, adapter_vars, host_vars, native_vars>>

\* payload.rs 89-121
ApplyPayloadVerifyStorage ==
    /\ f_op = "none"
    /\ s_pc = "idle"
    /\ \E in \in StorageInputs :
          /\ f_in' = in
          /\ f_out' = IF payload_verify_data_commitment_storage(in.root, in.storage_proof,
                            in.commitment_nonce, in.expected_commitment)
                      THEN Ok(<<>>) ELSE Err("ProofVerificationError")
    /\ f_op' = "payload::verify_data_commitment_storage"
    /\ UNCHANGED <<scan_vars, guest_vars, adapter_vars, host_vars, native_vars>>

\* kona_proof::HintType, the base hint alphabet (hint.rs 4), each variant
\* with the token it is rendered as and parsed from
BaseHintTokens ==
    {<<"L1BlockHeader", "l1-block-header">>, <<"L1Transactions", "l1-transactions">>,
     <<"L1Receipts", "l1-receipts">>, <<"L1Blob", "l1-blob">>,
     <<"L1Precompile", "l1-precompile">>, <<"L2BlockHeader", "l2-block-header">>,
     <<"L2Transactions", "l2-transactions">>, <<"L2Receipts", "l2-receipts">>,
     <<"StartingL2Output", "starting-l2-output">>, <<"L2Code", "l2-code">>,
     <<"L2StateNode", "l2-state-node">>, <<"L2AccountProof", "l2-account-proof">>,
     <<"L2AccountStorageProof", "l2-account-storage-proof">>,
     <<"L2PayloadWitness", "l2-payload-witness">>}
HintType == {t[1] : t \in BaseHintTokens}

\* hint.rs 7-10: enum HintWrapper
Standard(hint) == [tag |-> "Standard", inner |-> hint]
CelestiaDA == [tag |-> "CelestiaDA", inner |-> "none"]
HintWrapper == {Standard(s) : s \in HintType} \cup {CelestiaDA}

\* the base handler, SingleChainHintHandler::fetch_hint, as fetch_hint calls
\* it (handler.rs 47-53): it returns Ok after setting the preimage of the
\* hint in the store it was given, returns an error, or panics
SingleChainHintHandler_fetch_hint(call, outcome) ==
    [result |-> outcome,
     store |-> IF outcome = "Ok"
               THEN kv_set(call.kv, PreimageKey(keccak256(call.hint.data), "Keccak256"),
                           <<"preimage", call.hint.ty>>)
               ELSE call.kv]

\* a variant of the Standard branch that logs the base handler's error and
\* returns Ok
fetch_hint_standard_lenient(hint, cfg, providers, store, outcome) ==
    LET inner_hint == [ty |-> hint.ty.inner, data |-> hint.data]
        call == [hint |-> inner_hint, cfg |-> cfg.single_host,
                 providers |-> providers.inner_providers, kv |-> store]
        base == SingleChainHintHandler_fetch_hint(call, outcome)
    IN  [call |-> call, base |-> base,
         result |-> IF base.result = "Panic" THEN "Panic" ELSE "Ok",
         store |-> base.store, rpcs |-> <<>>]

\* handler.rs 41-58: the Standard branch of fetch_hint.  [call, base, result,
\* store, rpcs]: the call made to the base handler and what it answered,
\* what fetch_hint returns, the store afterwards, the Celestia and
\* settlement-chain calls made
fetch_hint_standard(hint, cfg, providers, store, outcome) ==
    LET inner_hint == [ty |-> hint.ty.inner, data |-> hint.data]
        call == [hint |-> inner_hint, cfg |-> cfg.single_host,
                 providers |-> providers.inner_providers, kv |-> store]
        base == SingleChainHintHandler_fetch_hint(call, outcome)
    IN  [call |-> call, base |-> base,
         result |-> IF base.result = "Ok" THEN "Ok"
                    ELSE IF base.result = "Err" THEN "Err" ELSE "Panic",
         store |-> base.store, rpcs |-> <<>>]

\* the host's configuration and providers (cfg.rs 39-44, providers.rs)
HostCfg == [single_host |-> "single_host", celestia_args |-> "celestia_args"]
HostProviders == [inner_providers |-> "inner_providers", celestia |-> "celestia"]

\* the hint data and the stores the Standard branch is applied to
StandardHintData == {<<7>>, to_le_bytes(42) \o hash("cA")}
StandardStores ==
    {<<>>, kv_set(<<>>, blob_get_key(42, "cA"), to_bytes(GoodPayload([height |-> 42, commitment |-> "cA"]), OraclePayloadFields))}

\* handler.rs 40-58
ApplyFetchHintStandard ==
    /\ f_op = "none"
    /\ s_pc = "idle"
    /\ \E s \in HintType, data \in StandardHintData, store \in StandardStores,
          outcome \in {"Ok", "Err", "Panic"} :
          /\ f_in' = [hint |-> [ty |-> Standard(s), data |-> data], cfg |-> HostCfg,
                      providers |-> HostProviders, kv |-> store]
          /\ f_out' = fetch_hint_standard([ty |-> Standard(s), data |-> data], HostCfg,
                                          HostProviders, store, outcome)
    /\ f_op' = "fetch_hint: Standard"
    /\ UNCHANGED <<scan_vars, guest_vars, adapter_vars, host_vars, native_vars>>

\* celestia.rs 74-79: the pair next parses from a pointer record
pointer_parse(pointer_data) ==
    [height |-> from_le_bytes(Slice(pointer_data, 3, 11)),
     commitment |-> Commitment_new(Slice(pointer_data, 11, 43))]

\* a variant of the host's decoding that takes the height from bytes 1..8
hint_decode_shifted(data) ==
    [height |-> from_le_bytes(Slice(data, 1, 8)),
     commitment |-> Commitment_new(Slice(data, 8, 40))]

\* handler.rs 62-66: the pair fetch_hint decodes from the hint data
hint_decode(data) ==
    [height |-> from_le_bytes(Slice(data, 0, 8)),
     commitment |-> Commitment_new(Slice(data, 8, 40))]

\* the heights pointer records carry here: every byte position of a height
\* below 2^31 is used by one of them
PointerHeights == {0, 42, 43, 255, 256, 65536, 16777216 + 42, 2147483647}

\* celestia.rs 74-82, provider.rs 40-46, handler.rs 60-66: a pointer record
\* parsed by the adapter, the hint blob_get makes of the pair, and the pair
\* the host decodes from the hint data
ApplyPointerToHint ==
    /\ f_op = "none"
    /\ s_pc = "idle"
    /\ \E height \in PointerHeights, commitment \in Commitments :
          LET parsed == pointer_parse(Pointer(height, commitment))
              hint == blob_get_hint(parsed.height, parsed.commitment)
          IN  /\ f_in' = [pointer |-> Pointer(height, commitment)]
              /\ f_out' = [parsed |-> parsed, hint |-> hint, decoded |-> hint_decode(hint.data)]
    /\ f_op' = "pointer to hint"
    /\ UNCHANGED <<scan_vars, guest_vars, adapter_vars, host_vars, native_vars>>

\* kona_proof::HintType as Display and FromStr (hint.rs 17, 33)
HintType_fmt(hint) == (CHOOSE t \in BaseHintTokens : t[1] = hint)[2]
HintType_from_str(s) ==
    IF \E t \in BaseHintTokens : t[2] = s
    THEN Ok((CHOOSE t \in BaseHintTokens : t[2] = s)[1])
    ELSE Err("unknown hint")

\* a variant of Display that writes the extension's token with an underscore
HintWrapper_fmt_underscore(h) ==
    IF h.tag = "Standard" THEN HintType_fmt(h.inner) ELSE "celestia_da"

\* hint.rs 30-37: Display for HintWrapper
HintWrapper_fmt(h) ==
    IF h.tag = "Standard" THEN HintType_fmt(h.inner) ELSE "celestia-da"

\* a variant of from_str that takes the extension's token in any case
HintWrapper_from_str_any_case(s) ==
    IF HintType_from_str(s).kind = "Ok"
    THEN Ok(Standard(HintType_from_str(s).value))
    ELSE IF s \in {"celestia-da", "Celestia-DA", "CELESTIA-DA"} THEN Ok(CelestiaDA)
    ELSE Err("unknown hint")

\* hint.rs 12-27: FromStr for HintWrapper
HintWrapper_from_str(s) ==
    IF HintType_from_str(s).kind = "Ok"
    THEN Ok(Standard(HintType_from_str(s).value))
    ELSE IF s = "celestia-da" THEN Ok(CelestiaDA)
    ELSE Err("unknown hint")

\* the strings from_str is applied to: every base token, the extension's
\* token, and strings near them
HintTexts ==
    {t[2] : t \in BaseHintTokens}
        \cup {"celestia-da", "celestia_da", "Celestia-DA", "CELESTIA-DA", "celestia-da ",
              " celestia-da", "celestia", "celestia-da-2", "CelestiaDA", "", "l1-blob-x",
              "L1Blob", "l1_blob"}

\* hint.rs 30-37, then 12-27 on the text
ApplyHintRender ==
    /\ f_op = "none"
    /\ s_pc = "idle"
    /\ \E h \in HintWrapper :
          /\ f_in' = h
          /\ f_out' = [text |-> HintWrapper_fmt(h),
                       parsed |-> HintWrapper_from_str(HintWrapper_fmt(h))]
    /\ f_op' = "HintWrapper: Display"
    /\ UNCHANGED <<scan_vars, guest_vars, adapter_vars, host_vars, native_vars>>

\* hint.rs 12-27
ApplyHintParse ==
    /\ f_op = "none"
    /\ s_pc = "idle"
    /\ \E s \in HintTexts :
          /\ f_in' = s
          /\ f_out' = [base |-> HintType_from_str(s), parsed |-> HintWrapper_from_str(s)]
    /\ f_op' = "HintWrapper: from_str"
    /\ UNCHANGED <<scan_vars, guest_vars, adapter_vars, host_vars, native_vars>>

\* the payloads the codec is applied to (payload.rs 13-30)
CodecPayloads ==
    {OraclePayload_new(blob, data_root, data_commitment, data_root_tuple_proof, share_proof,
                       proof_nonce, "S1", storage_proof) :
        blob \in {<<>>, BlobA}, data_root \in DataRoots, data_commitment \in StoredWords,
        data_root_tuple_proof \in {BrokenTupleProof,
                                   [height |-> 42, data_root |-> "R1", root |-> "D1"]},
        share_proof \in {BrokenShareProof, [shares |-> <<ShareA>>, root |-> "R1"]},
        proof_nonce \in Nonces,
        storage_proof \in {BrokenStorageProof, [root |-> "S1", nonce |-> 1, stored |-> "D1"]}}

\* payload.rs 56-66: to_bytes, then from_bytes on the result
ApplyPayloadRoundTrip ==
    /\ f_op = "none"
    /\ s_pc = "idle"
    /\ \E p \in CodecPayloads :
          /\ f_in' = p
          /\ f_out' = [bytes |-> to_bytes(p, OraclePayloadFields),
                       decoded |-> from_bytes(to_bytes(p, OraclePayloadFields),
                                              OraclePayloadFields)]
    /\ f_op' = "OraclePayload: to_bytes, from_bytes"
    /\ UNCHANGED <<scan_vars, guest_vars, adapter_vars, host_vars, native_vars>>

\* the most bytes that follow an encoding in an input longer than it
MaxTrailing == 2

\* payload.rs 62-66: from_bytes on an encoding, an encoding followed by
\* more, or the start of an encoding
ApplyPayloadDecode ==
    /\ f_op = "none"
    /\ s_pc = "idle"
    /\ \E r \in Requests :
          LET p == OraclePayload_new(GoodPayload(r).blob, GoodPayload(r).data_root,
                       GoodPayload(r).data_commitment, GoodPayload(r).data_root_tuple_proof,
                       GoodPayload(r).share_proof, GoodPayload(r).proof_nonce,
                       GoodPayload(r).storage_root, GoodPayload(r).storage_proof)
              encoding == to_bytes(p, OraclePayloadFields)
          IN  \E n \in 0..(Len(encoding) + MaxTrailing) :
                 LET bytes == IF n <= Len(encoding)
                              THEN SubSeq(encoding, 1, n)
                              ELSE encoding \o Fill(n - Len(encoding), 0)
                 IN  /\ f_in' = [encoding |-> encoding, bytes |-> bytes]
                     /\ f_out' = from_bytes(bytes, OraclePayloadFields)
    /\ f_op' = "OraclePayload: from_bytes"
    /\ UNCHANGED <<scan_vars, guest_vars, adapter_vars, host_vars, native_vars>>

\* mapping_slot: u32 and key: U256, the values the slot is computed for
MappingSlots == {0, 1, 254, 255, 256, 65536, 2147483647}

MappingKeys == {0, 1, 2, 254, 255, 256, 65537, 16777216 + 42, 2147483647}

\* payload.rs 124-134 for any slot and key, and 96: the slot of the
\* data-commitments mapping for the same key
ApplyMappingSlot ==
    /\ f_op = "none"
    /\ s_pc = "idle"
    /\ \E mapping_slot \in MappingSlots, key \in MappingKeys :
          /\ f_in' = [mapping_slot |-> mapping_slot, key |-> key]
          /\ f_out' = [slot |-> payload_calculate_mapping_slot(mapping_slot, key),
                       data_commitments |->
                           payload_calculate_mapping_slot(payload_DATA_COMMITMENTS_SLOT, key)]
    /\ f_op' = "calculate_mapping_slot"
    /\ UNCHANGED <<scan_vars, guest_vars, adapter_vars, host_vars, native_vars>>

\* height: u64, the heights the tuple is encoded for
TupleHeights == {0, 1, 42, 255, 256, 65536, 16777216 + 42, 2147483647}

\* payload.rs 69-86 and blobstream.rs 128-145 on the same height and data root
ApplyEncodeTuple ==
    /\ f_op = "none"
    /\ s_pc = "idle"
    /\ \E height \in TupleHeights, data_root \in DataRoots :
          /\ f_in' = [height |-> height, data_root |-> data_root]
          /\ f_out' = [host |-> payload_encode_data_root_tuple(height, data_root),
                       guest |-> encode_data_root_tuple(height, data_root)]
    /\ f_op' = "encode_data_root_tuple"
    /\ UNCHANGED <<scan_vars, guest_vars, adapter_vars, host_vars, native_vars>>

\* cfg.rs 263-274: enum ChainId, each variant with its discriminant
ChainId ==
    {<<"EthereumMainnet", 1>>, <<"ArbitrumOne", 42161>>, <<"Base", 8453>>,
     <<"Sepolia", 11155111>>, <<"ArbitrumSepolia", 421614>>, <<"BaseSepolia", 84532>>}

\* a variant of the lookup that takes an unknown id for the main net
ChainId_from_u64_defaulting(id) ==
    IF \E c \in ChainId : c[2] = id
    THEN (CHOOSE c \in ChainId : c[2] = id)[1]
    ELSE "EthereumMainnet"

\* cfg.rs 277-287: ChainId::from_u64, Some(variant) or None
ChainId_from_u64(id) ==
    CASE id = 1 -> "EthereumMainnet"
      [] id = 42161 -> "ArbitrumOne"
      [] id = 8453 -> "Base"
      [] id = 11155111 -> "Sepolia"
      [] id = 421614 -> "ArbitrumSepolia"
      [] id = 84532 -> "BaseSepolia"
      [] OTHER -> None

\* cfg.rs 289-307: ChainId::blostream_address
ChainId_blostream_address(chain) ==
    CASE chain = "EthereumMainnet" -> "0x7Cf3876F681Dbb6EdA8f6FfC45D66B996Df08fAe"
      [] chain = "ArbitrumOne" -> "0xA83ca7775Bc2889825BcDeDfFa5b758cf69e8794"
      [] chain = "Base" -> "0xA83ca7775Bc2889825BcDeDfFa5b758cf69e8794"
      [] chain = "Sepolia" -> "0xF0c6429ebAB2e7DC6e05DaFB61128bE21f13cb1e"
      [] chain = "ArbitrumSepolia" -> "0xc3e209eb245Fd59c8586777b499d6A665DF3ABD2"
      [] chain = "BaseSepolia" -> "0xc3e209eb245Fd59c8586777b499d6A665DF3ABD2"

\* the host's configuration as start_server and create_providers read it:
\* each optional field is None or set; the namespace is None, valid hex of
\* a version-0 namespace, or text that is no hex
StartupConfigs ==
    [l1_node_address : {None, "l1"},
     l2_node_address : {None, "l2"},
     l1_beacon_address : {None, "beacon"},
     data_dir : {None, "dir"},
     celestia_connection : {None, "celestia"},
     namespace : {None, "0a0b", "zz"}]

\* what the services answer during startup: whether the Celestia RPC client
\* can be created, and the settlement chain's eth_chainId
StartupChainIds == {0, 1, 999, 8453, 42161, 84532, 421614, 11155111}

StartupEnvs ==
    [celestia_client : {"Ok", "Err"},
     chain_id : {Ok(id) : id \in StartupChainIds} \cup {Err("rpc")}]

\* cfg.rs 184-250: create_providers, the checks in the order the code makes
\* them; `?` returns Err, expect panics
create_providers(cfg, env) ==
    IF cfg.l1_node_address = None THEN Err("Provider must be set") ELSE
    IF cfg.l1_beacon_address = None THEN Err("Beacon API URL must be set") ELSE
    IF cfg.l2_node_address = None THEN Err("L2 node address must be set") ELSE
    IF cfg.celestia_connection = None THEN Err("Celestia connection must be set") ELSE
    IF env.celestia_client = "Err" THEN Panic("Failed creating rpc client") ELSE
    IF cfg.namespace = None THEN Err("Celestia Namespace must be set") ELSE
    IF cfg.namespace = "zz" THEN Panic("Invalid hex") ELSE
    IF env.chain_id.kind = "Err"
    THEN Panic("unable to fetch chain id from root provider") ELSE
    IF ChainId_from_u64(env.chain_id.value) = None
    THEN Err("Unknown chain id for blobstream address")
    ELSE Ok([inner_providers |-> [l1 |-> cfg.l1_node_address,
                                  blobs |-> cfg.l1_beacon_address,
                                  l2 |-> cfg.l2_node_address],
             celestia |-> [client |-> cfg.celestia_connection,
                           namespace |-> cfg.namespace,
                           blobstream_address |->
                               ChainId_blostream_address(
                                   ChainId_from_u64(env.chain_id.value))]])

\* a variant of the mode test that looks at the data directory alone
is_offline_by_data_dir(cfg) == cfg.data_dir # None

\* cfg.rs 140-146: is_offline
is_offline(cfg) ==
    /\ cfg.l1_node_address = None
    /\ cfg.l2_node_address = None
    /\ cfg.l1_beacon_address = None
    /\ cfg.data_dir # None

\* cfg.rs 167-181: create_key_value_store, the local inputs split with a
\* disk store if a data directory is set and with a memory store if not
create_key_value_store(cfg) ==
    Ok([local |-> "SingleChainLocalInputs",
        remote |-> IF cfg.data_dir # None THEN "DiskKeyValueStore"
                   ELSE "MemoryKeyValueStore"])

\* cfg.rs 76-119: start_server.  [result, backend, created]: the join handle
\* or the error, the backend the preimage server is given, and what
\* create_providers returned if it was called
start_server(cfg, env) ==
    LET kv_store == create_key_value_store(cfg).value
    IN  IF is_offline(cfg)
        THEN [result |-> Ok("task_handle"),
              backend |-> [kind |-> "OfflineHostBackend", kv |-> kv_store],
              created |-> NoResult]
        ELSE LET providers == create_providers(cfg, env)
             IN  IF providers.kind # "Ok"
                 THEN [result |-> providers,
                       backend |-> [kind |-> None],
                       created |-> providers]
                 ELSE [result |-> Ok("task_handle"),
                       backend |-> [kind |-> "OnlineHostBackend", cfg |-> cfg,
                                    kv |-> kv_store, providers |-> providers.value,
                                    handler |-> "CelestiaChainHintHandler"],
                       created |-> providers]

\* cfg.rs 76-119 for one configuration and one set of answers
ApplyStartServer ==
    /\ f_op = "none"
    /\ s_pc = "idle"
    /\ \E cfg \in StartupConfigs, env \in StartupEnvs :
          /\ f_in' = [cfg |-> cfg, env |-> env]
          /\ f_out' = start_server(cfg, env)
    /\ f_op' = "start_server"
    /\ UNCHANGED <<scan_vars, guest_vars, adapter_vars, host_vars, native_vars>>

\* cfg.rs 277-307 for one id
ApplyChainId ==
    /\ f_op = "none"
    /\ s_pc = "idle"
    /\ \E id \in StartupChainIds \cup {2, 84531, 42162, 2147483647} :
          /\ f_in' = id
          /\ f_out' = [chain |-> ChainId_from_u64(id),
                       address |-> IF ChainId_from_u64(id) = None THEN None
                                   ELSE ChainId_blostream_address(ChainId_from_u64(id))]
    /\ f_op' = "ChainId::from_u64"
    /\ UNCHANGED <<scan_vars, guest_vars, adapter_vars, host_vars, native_vars>>

\* cfg.rs 184-250 for one configuration and one set of answers
ApplyCreateProviders ==
    /\ f_op = "none"
    /\ s_pc = "idle"
    /\ \E cfg \in StartupConfigs, env \in StartupEnvs :
          /\ f_in' = [cfg |-> cfg, env |-> env]
          /\ f_out' = create_providers(cfg, env)
    /\ f_op' = "create_providers"
    /\ UNCHANGED <<scan_vars, guest_vars, adapter_vars, host_vars, native_vars>>

\* handler.rs 88-95 when the header's row-root list is empty: eds_size = 0
ApplyShareRangeNoRows ==
    /\ f_op = "none"
    /\ s_pc = "idle"
    /\ \E index \in {0, 1, 5}, shares_len \in 1..MaxSharesLen :
          /\ f_in' = [index |-> index, eds_size |-> 0, shares_len |-> shares_len,
                      row |-> 0, col |-> index]
          /\ f_out' \in share_range(index, 0, shares_len)
    /\ f_op' = "share_range: no row roots"
    /\ UNCHANGED <<scan_vars, guest_vars, adapter_vars, host_vars, native_vars>>

\* payload.rs 69-134 and blobstream.rs 128-182: each of the three functions
\* the two crates both define, the host's copy and the guest's copy applied
\* to the same arguments
ApplyBothCopies ==
    /\ f_op = "none"
    /\ s_pc = "idle"
    /\ \/ \E mapping_slot \in MappingSlots, key \in MappingKeys :
             /\ f_in' = [fn |-> "calculate_mapping_slot", args |-> <<mapping_slot, key>>]
             /\ f_out' = [host |-> payload_calculate_mapping_slot(mapping_slot, key),
                          guest |-> calculate_mapping_slot(mapping_slot, key)]
       \/ \E height \in TupleHeights, data_root \in DataRoots :
             /\ f_in' = [fn |-> "encode_data_root_tuple", args |-> <<height, data_root>>]
             /\ f_out' = [host |-> payload_encode_data_root_tuple(height, data_root),
                          guest |-> encode_data_root_tuple(height, data_root)]
       \/ \E in \in StorageInputs :
             /\ f_in' = [fn |-> "verify_data_commitment_storage", args |-> in]
             /\ f_out' =
                   [host |-> payload_verify_data_commitment_storage(in.root,
                                 in.storage_proof, in.commitment_nonce, in.expected_commitment),
                    guest |-> verify_data_commitment_storage(in.root,
                                 in.storage_proof, in.commitment_nonce, in.expected_commitment)]
    /\ f_op' = "host copy, guest copy"
    /\ UNCHANGED <<scan_vars, guest_vars, adapter_vars, host_vars, native_vars>>

FnNext ==
    \/ ApplyPayloadDecode
    \/ ApplyMappingSlot
    \/ ApplyEncodeTuple
    \/ ApplyShareRange
    \/ ApplyShareRangeNoRows
    \/ ApplyVerifyStorage
    \/ ApplyPayloadVerifyStorage
    \/ ScanStart
    \/ ScanWindow
    \/ ApplyHintParse
    \/ ApplyHintRender
    \/ ApplyPointerToHint
    \/ ApplyFetchHintStandard
    \/ ApplyPayloadRoundTrip
    \/ ApplyChainId
    \/ ApplyCreateProviders
    \/ ApplyStartServer
    \/ ApplyBothCopies

----------------------------------------------------------------------------
(* Specifications                                                           *)

\* one blob_get call of the guest against an untrusted oracle; the adapter
\* and the host stay as constructed
InitGuest ==
    /\ g_pc = "start"
    /\ g_req \in Requests
    /\ g_hint = NoHint
    /\ g_read = NoResult
    /\ g_result = NoResult
    /\ a_data = <<>>
    /\ a_open = FALSE
    /\ a_eth_open = FALSE
    /\ a_calls = <<>>
    /\ a_fetched = NoResult
    /\ a_record = NoResult
    /\ a_result = NoResult
    /\ a_prev = [data |-> <<>>, open |-> FALSE, cleared |-> FALSE]
    /\ a_nexts = 0
    /\ kv = <<>>
    /\ h_pc = "off"
    /\ h_hint = NoHint
    /\ h_loc = EmptyLoc
    /\ h_verified = {}
    /\ h_result = "none"
    /\ h_lock = FALSE
    /\ h_hints = 0
    /\ h_rpcs = <<>>
    /\ h_kv0 = <<>>
    /\ l1_head = 0
    /\ c_pc = "off"
    /\ c_req = [height |-> 0, commitment |-> "none"]
    /\ c_read = NoResult
    /\ c_result = NoResult
    /\ s_pc = "off"
    /\ s_height = 0
    /\ s_head = 0
    /\ s_start = 0
    /\ s_end = 0
    /\ s_windows = <<>>
    /\ s_result = NoResult
    /\ f_op = "off"
    /\ f_in = <<>>
    /\ f_out = NoResult
    /\ n_server = "off"
    /\ n_client = "off"
    /\ n_exit = NoResult

SpecGuest == InitGuest /\ [][GuestNext]_vars

\* the host handling the hints of a client, over its two RPC endpoints
Init ==
    /\ g_pc = "off"
    /\ g_req = [height |-> 0, commitment |-> "none"]
    /\ g_hint = NoHint
    /\ g_read = NoResult
    /\ g_result = NoResult
    /\ a_data = <<>>
    /\ a_open = FALSE
    /\ a_eth_open = FALSE
    /\ a_calls = <<>>
    /\ a_fetched = NoResult
    /\ a_record = NoResult
    /\ a_result = NoResult
    /\ a_prev = [data |-> <<>>, open |-> FALSE, cleared |-> FALSE]
    /\ a_nexts = 0
    /\ kv = <<>>
    /\ h_pc = "idle"
    /\ h_hint = NoHint
    /\ h_loc = EmptyLoc
    /\ h_verified = {}
    /\ h_result = "none"
    /\ h_lock = FALSE
    /\ h_hints = 0
    /\ h_rpcs = <<>>
    /\ h_kv0 = <<>>
    /\ l1_head \in LatestBlocks
    /\ c_pc = "idle"
    /\ c_req = [height |-> 0, commitment |-> "none"]
    /\ c_read = NoResult
    /\ c_result = NoResult
    /\ s_pc = "off"
    /\ s_height = 0
    /\ s_head = 0
    /\ s_start = 0
    /\ s_end = 0
    /\ s_windows = <<>>
    /\ s_result = NoResult
    /\ f_op = "off"
    /\ f_in = <<>>
    /\ f_out = NoResult
    /\ n_server = "running"
    /\ n_client = "running"
    /\ n_exit = NoResult

Spec == Init /\ [][HostNext]_vars

\* the adapter over a base source and an untrusted oracle
InitAdapter ==
    /\ g_pc = "off"
    /\ g_req = [height |-> 0, commitment |-> "none"]
    /\ g_hint = NoHint
    /\ g_read = NoResult
    /\ g_result = NoResult
    /\ a_data = <<>>
    /\ a_open = FALSE
    /\ a_eth_open = FALSE
    /\ a_calls = <<>>
    /\ a_fetched = NoResult
    /\ a_record = NoResult
    /\ a_result = NoResult
    /\ a_prev = [data |-> <<>>, open |-> FALSE, cleared |-> FALSE]
    /\ a_nexts = 0
    /\ kv = <<>>
    /\ h_pc = "off"
    /\ h_hint = NoHint
    /\ h_loc = EmptyLoc
    /\ h_verified = {}
    /\ h_result = "none"
    /\ h_lock = FALSE
    /\ h_hints = 0
    /\ h_rpcs = <<>>
    /\ h_kv0 = <<>>
    /\ l1_head = 0
    /\ c_pc = "off"
    /\ c_req = [height |-> 0, commitment |-> "none"]
    /\ c_read = NoResult
    /\ c_result = NoResult
    /\ s_pc = "off"
    /\ s_height = 0
    /\ s_head = 0
    /\ s_start = 0
    /\ s_end = 0
    /\ s_windows = <<>>
    /\ s_result = NoResult
    /\ f_op = "off"
    /\ f_in = <<>>
    /\ f_out = NoResult
    /\ n_server = "off"
    /\ n_client = "off"
    /\ n_exit = NoResult

SpecAdapter == InitAdapter /\ [][AdapterNextStep]_vars

\* one find_data_commitment call, or one application of a pure function
InitFn ==
    /\ g_pc = "off"
    /\ g_req = [height |-> 0, commitment |-> "none"]
    /\ g_hint = NoHint
    /\ g_read = NoResult
    /\ g_result = NoResult
    /\ a_data = <<>>
    /\ a_open = FALSE
    /\ a_eth_open = FALSE
    /\ a_calls = <<>>
    /\ a_fetched = NoResult
    /\ a_record = NoResult
    /\ a_result = NoResult
    /\ a_prev = [data |-> <<>>, open |-> FALSE, cleared |-> FALSE]
    /\ a_nexts = 0
    /\ kv = <<>>
    /\ h_pc = "off"
    /\ h_hint = NoHint
    /\ h_loc = EmptyLoc
    /\ h_verified = {}
    /\ h_result = "none"
    /\ h_lock = FALSE
    /\ h_hints = 0
    /\ h_rpcs = <<>>
    /\ h_kv0 = <<>>
    /\ l1_head = 0
    /\ c_pc = "off"
    /\ c_req = [height |-> 0, commitment |-> "none"]
    /\ c_read = NoResult
    /\ c_result = NoResult
    /\ s_pc = "idle"
    /\ s_height = 0
    /\ s_head = 0
    /\ s_start = 0
    /\ s_end = 0
    /\ s_windows = <<>>
    /\ s_result = NoResult
    /\ f_op = "none"
    /\ f_in = <<>>
    /\ f_out = NoResult
    /\ n_server = "off"
    /\ n_client = "off"
    /\ n_exit = NoResult

SpecFn == InitFn /\ [][FnNext]_vars

----------------------------------------------------------------------------
(* Claims                                                                   *)

GuestPayload == from_bytes(g_read.value, GuestPayloadFields).value
GuestReturnedOk == g_pc = "done" /\ g_result.kind = "Ok"

\* C1: blob_get returns Ok(blob) only if the share proof verifies against
\* payload.data_root, the data-root-tuple proof verifies
\* encode_data_root_tuple(height, data_root) against payload.data_commitment,
\* and verify_data_commitment_storage succeeds; otherwise no blob is returned.
C1_OkOnlyIfAllVerified ==
    GuestReturnedOk =>
        /\ g_read.kind = "Ok"
        /\ g_result.value = GuestPayload.blob
        /\ GuestPayload.share_proof.root = GuestPayload.data_root
        /\ MerkleProof_verify(GuestPayload.data_root_tuple_proof,
                              TupleLeaf(g_req.height, GuestPayload.data_root),
                              GuestPayload.data_commitment)
        /\ verify_proof(GuestPayload.storage_root,
                        TrieKey(GuestPayload.proof_nonce),
                        <<160>> \o as_bytes(GuestPayload.data_commitment),
                        GuestPayload.storage_proof)

C1_Witness ==
    /\ GuestReturnedOk
    /\ GuestPayload.storage_proof \in TrueStorageProofs

\* C2: whenever blob_get returns Ok, the returned blob bytes are the data
\* carried by the shares the share proof proves under data_root.
C2_BlobIsProvenData ==
    GuestReturnedOk => g_result.value = DeShare(GuestPayload.share_proof.shares)

\* C3: whenever blob_get(height, commitment) returns Ok, every share the
\* share proof proves belongs to the blob with the requested commitment.
C3_SharesBelongToRequested ==
    GuestReturnedOk =>
        \A sh \in Range(GuestPayload.share_proof.shares) :
            g_req.commitment \in Range(sh.commitments)

HostReturnedOk == h_pc = "done" /\ h_result = "Ok"
HostKey == fetch_hint_key(h_hint)

\* what is true of the proofs fetch_hint holds, whatever it checked
HostShareProofValid ==
    /\ h_loc.share_proof \in TrueShareProofs
    /\ h_loc.share_proof.root = h_loc.data_root
HostTupleProofValid ==
    /\ h_loc.data_root_proof \in TrueTupleProofs
    /\ h_loc.data_root_proof =
          [height |-> h_loc.height, data_root |-> h_loc.data_root,
           root |-> h_loc.event.data_commitment]
HostStorageProofValid ==
    /\ h_loc.storage_proof # <<>>
    /\ h_loc.storage_proof[1] \in ChainStorageProofs
    /\ h_loc.storage_proof[1] =
          [root |-> h_loc.storage_hash, nonce |-> h_loc.event.proof_nonce,
           stored |-> h_loc.event.data_commitment]

\* C4: whenever the host's handling of a CelestiaDA hint completes with Ok
\* and stores a payload, the guest's blob_get for the same (height,
\* commitment) decodes that payload, passes every guest-side check and
\* returns the blob bytes the host fetched.
C4_GuestAcceptsHostPayload ==
    (c_pc = "done" /\ c_read # NoResult) =>
        /\ c_read.kind = "Ok"
        /\ c_result = Ok(h_loc.blob.data)

\* C5: the store is written only in a step of fetch_hint that returns Ok,
\* after the share proof, the data-root-tuple proof and the storage proof
\* have verified on the host, and the three proofs are valid; a handling
\* that fails leaves the store as it was.
C5_WriteOnlyAfterVerification ==
    [][/\ kv' # kv =>
            /\ h_result' = "Ok"
            /\ h_verified = {"share", "tuple", "storage"}
            /\ HostShareProofValid
            /\ HostTupleProofValid
            /\ HostStorageProofValid
       /\ h_result' \in {"Err", "Panic"} => kv' = kv]_vars

C5_Witness ==
    /\ HostReturnedOk
    /\ HostKey \in DOMAIN kv
    /\ h_verified = {"share", "tuple", "storage"}

\* C6: the key the host stores the payload under, keccak256 of the 40-byte
\* hint data with key type GlobalGeneric, is the key the guest's blob_get
\* requests, keccak256(height_le || commitment.hash) with key type
\* GlobalGeneric.
C6_HostKeyIsGuestKey ==
    (c_pc = "hinted" /\ Len(h_hint.data) = 40) =>
        /\ HostKey = blob_get_key(c_req.height, c_req.commitment)
        /\ HostKey = [ty |-> "GlobalGeneric",
                      hash |-> <<"keccak256", LowBytes(c_req.height, 8)
                                                 \o as_bytes(c_req.commitment)>>]
        /\ HostReturnedOk => DOMAIN kv \subseteq
                                {blob_get_key(r.height, r.commitment) : r \in Requests}

C6_Witness ==
    /\ c_pc = "hinted"
    /\ HostReturnedOk
    /\ blob_get_key(c_req.height, c_req.commitment) \in DOMAIN kv

\* C7: fetch_hint returns Ok only after the payload has been set in the
\* store under its key, so the client's preimage read that follows its hint
\* never finds the key missing.
C7_OkOnlyAfterSet ==
    /\ (h_result = "Ok" /\ h_pc \in {"done", "idle"}) =>
            /\ HostKey \in DOMAIN kv
            /\ ~h_lock
    /\ c_pc = "acked" => blob_get_key(c_req.height, c_req.commitment) \in DOMAIN kv
    /\ c_read # NoResult => c_read.kind = "Ok"

C7_Witness ==
    /\ c_pc = "done"
    /\ c_read.kind = "Ok"
    /\ c_read.value = kv[HostKey]

NextReturned == a_result.kind # "none"
IsCelestiaPointer(base) ==
    base.kind = "Ok" /\ Len(base.value) = 43 /\ base.value[3] = 12

\* C8: when the guest's verification of the payload fails inside blob_get,
\* next reports a fatal error: not Ok, and not a temporary Eof/EndOfSource.
C8_VerificationFailureIsFatal ==
    (NextReturned /\ a_fetched.kind \in {"Err", "Panic"} /\ a_fetched.msg # "preimage oracle") =>
        \/ a_result.kind = "Panic"
        \/ a_result.kind = "Err" /\ a_result.severity # "Temporary"

\* C9: every next whose pointer record has byte[2] = 0x0c calls blob_get
\* exactly once with the record's height and commitment and returns the blob
\* fetched, also for the second and later records without a clear() between.
C9_OneFetchPerPointer ==
    (NextReturned /\ IsCelestiaPointer(a_record)) =>
        /\ a_calls = <<[height |-> from_le_bytes(SubSeq(a_record.value, 4, 11)),
                        commitment |-> Commitment_new(SubSeq(a_record.value, 12, 43))]>>
        /\ a_fetched.kind = "Ok" => a_result = a_fetched

\* C10: a record whose byte[2] is not 0x0c makes next return
\* Temporary(EndOfSource) without calling blob_get and without changing the
\* Celestia source's queue and open flag.
C10_NotCelestiaRecord ==
    (NextReturned /\ a_record.kind = "Ok" /\ Len(a_record.value) >= 3
        /\ a_record.value[3] # 12) =>
        /\ a_result = Temporary("EndOfSource")
        /\ a_calls = <<>>
        /\ a_fetched = NoResult
        /\ a_data = a_prev.data
        /\ a_open = a_prev.open

C10_Witness ==
    /\ NextReturned
    /\ a_record = Ok(OtherRecord)
    /\ a_prev.open
    /\ a_result = Temporary("EndOfSource")

\* C11: after clear() the Celestia source's queue is empty, its open flag is
\* false and the base source has been cleared; the next call of next with a
\* 0x0c pointer record calls blob_get again, with the record's height and
\* commitment.
C11_ClearResets ==
    /\ (a_prev.cleared /\ a_result.kind = "none") =>
            /\ a_data = <<>>
            /\ ~a_open
            /\ ~a_eth_open
    /\ (a_prev.cleared /\ NextReturned /\ IsCelestiaPointer(a_record)) =>
            a_calls = <<[height |-> from_le_bytes(SubSeq(a_record.value, 4, 11)),
                         commitment |-> Commitment_new(SubSeq(a_record.value, 12, 43))]>>

C11_Witness ==
    /\ a_prev.cleared
    /\ a_nexts >= 2
    /\ IsCelestiaPointer(a_record)
    /\ a_result.kind = "Ok"
    /\ a_result = a_fetched

HostReturned == h_pc \in {"done", "down"}

\* C12: a CelestiaDA hint whose data is not exactly 40 bytes long makes
\* fetch_hint return an error before any Celestia or settlement-chain call
\* is made and without writing to the store.
C12_BadLengthRejected ==
    (h_hint.ty = "CelestiaDA" /\ Len(h_hint.data) # 40) =>
        /\ h_pc \in {"start", "done", "down"}
        /\ h_rpcs = <<>>
        /\ kv = h_kv0
        /\ ~h_lock
        /\ HostReturned => h_result = "Err"

C12_Witness ==
    /\ h_hint.ty = "CelestiaDA"
    /\ Len(h_hint.data) = 32
    /\ HostReturned
    /\ h_result = "Err"
    /\ kv # <<>>

\* C13: when an upstream step of the handling fails (blob fetch, header
\* fetch, share-range fetch, the log scan ending without a covering range,
\* tuple-proof fetch, storage-proof fetch), fetch_hint returns an error value
\* to its caller and the store is unchanged.
C13_UpstreamFailureIsErr ==
    (HostReturned /\ h_rpcs # <<>> /\ ~h_rpcs[Len(h_rpcs)].ok) =>
        /\ h_result = "Err"
        /\ kv = h_kv0

ScanCovers(e) == e.start_block <= s_height /\ s_height < e.end_block

\* C14: find_data_commitment returns Ok(event) only for an event whose range
\* covers the height, and returns the no-match error only if no covering
\* event was logged in blocks 0..latest: the windows scanned by then run
\* from latest down to block 0 without a gap.
C14_ScanIsComplete ==
    /\ (s_pc = "done" /\ s_result.kind = "Ok") =>
            /\ s_result.value \in Events
            /\ ScanCovers(s_result.value)
            /\ LogBlock(s_result.value) <= s_head
    /\ (s_pc = "done" /\ s_result = NoMatch) =>
            /\ ~\E e \in Events : ScanCovers(e) /\ LogBlock(e) <= s_head
            /\ s_windows # <<>>
            /\ s_windows[1].to_block = s_head
            /\ s_windows[Len(s_windows)].from_block = 0
            /\ \A i \in 1..(Len(s_windows) - 1) :
                   s_windows[i + 1].to_block >= s_windows[i].from_block - 1

C14_Witness ==
    /\ s_pc = "done"
    /\ s_result = NoMatch
    /\ Len(s_windows) = 3
    /\ s_head >= LogBlock(Event2)

\* C15: every get_logs filter of find_data_commitment covers at most 5000
\* blocks, both ends of from_block..to_block counted.
C15_WindowAtMost5000 ==
    \A i \in DOMAIN s_windows :
        s_windows[i].to_block - s_windows[i].from_block + 1 <= FILTER_BLOCK_RANGE

\* C16: for every blob index and square size the start index the host
\* computes is the position of the blob's first share in the original data
\* square, row * ods_size + col with row = index div eds_size and col =
\* index mod eds_size, and the end index is start + shares_len.
C16_StartIsOdsPosition ==
    f_op = "share_range" =>
        LET row == f_in.index \div f_in.eds_size
            col == f_in.index % f_in.eds_size
            start == row * (f_in.eds_size \div 2) + col
        IN  f_out = Ok([start_index |-> start, end_index |-> start + f_in.shares_len])

\* C17: on a valid proof of state_dataCommitments[nonce] under the root,
\* verify_data_commitment_storage succeeds exactly when the expected
\* commitment is the stored one, for every 32-byte commitment the slot can
\* hold, those with a leading 0x00 byte included.
C17_StorageCheckAcceptsStored ==
    f_op \in {"verify_data_commitment_storage", "payload::verify_data_commitment_storage"} =>
        (f_out.kind = "Ok" <=>
            f_in.storage_proof = [root |-> f_in.root, nonce |-> f_in.commitment_nonce,
                                  stored |-> f_in.expected_commitment])

\* the payload the guest read, with the storage proof that is valid for its
\* storage_root, proof_nonce and data_commitment in place of its own
GuestPayloadUntampered ==
    [GuestPayload EXCEPT !.storage_proof =
        [root |-> GuestPayload.storage_root, nonce |-> GuestPayload.proof_nonce,
         stored |-> GuestPayload.data_commitment]]

GuestStorageProofTampered ==
    /\ g_pc = "done"
    /\ g_read.kind = "Ok"
    /\ Len(g_read.value) >= Len(GuestPayloadFields)
    /\ GuestPayload.storage_proof = BrokenStorageProof
    /\ blob_get(g_req.height, g_req.commitment,
                Ok(to_bytes(GuestPayloadUntampered, GuestPayloadFields)))
          = {Ok(GuestPayload.blob)}

\* C18: if a byte of the payload's storage_proof is altered, blob_get does
\* not return the blob and reports the failure as an error value, not as
\* an abort of the guest program.
C18_TamperedStorageProofIsErr ==
    GuestStorageProofTampered => g_result.kind = "Err"

\* C19: handling the same CelestiaDA hint twice leaves the store as
\* handling it once does: the value under a key is written once, and no
\* later handling changes it.
C19_WrittenOnce ==
    [][kv' # kv => HostKey \notin DOMAIN kv]_vars

\* C20: fetch_hint holds the store's write lock only in its last step, after
\* every network call and every verification, and has released it on every
\* exit: success, error, failure while serialising.
C20_LockOnlyForSet ==
    /\ h_lock =>
          /\ h_pc = "locked"
          /\ h_verified = {"share", "tuple", "storage"}
          /\ Len(h_rpcs) = 7
          /\ \A i \in DOMAIN h_rpcs : h_rpcs[i].ok
    /\ h_pc # "locked" => ~h_lock

C20_Witness ==
    /\ HostReturned
    /\ h_result \in {"Err", "Panic"}
    /\ Len(h_rpcs) = 7
    /\ h_verified = {"share", "tuple", "storage"}
    /\ ~h_lock


\* C21: in native mode the two tasks are joined so that the process never
\* waits forever once one of them has ended: when the guest finishes the
\* process exits with the guest's status, and when the host task fails the
\* guest, observing the closed channel, aborts: what its data source hands
\* to the pipeline for that blob is a failure that ends derivation, not a
\* temporary condition after which derivation carries on.
C21_HostFailureAbortsGuest ==
    (n_server = "Err" /\ n_client = "running" /\ c_pc = "done"
        /\ c_result = Err("hint channel")) =>
        /\ ClientNextResult.kind \in {"Err", "Panic"}
        /\ ClientNextResult.kind = "Err" => ClientNextResult # Temporary("Eof")

\* C22: in native mode, when both tasks have completed, the exit code is 0
\* if the client returned Ok and 1 if it returned an error, whatever the
\* server task returned.
C22_ExitCodeIsGuestStatus ==
    n_exit.kind = "exit" =>
        /\ n_client \in {"Ok", "Err"}
        /\ n_server \in {"Ok", "Err"}
        /\ n_exit.code = IF n_client = "Ok" THEN 0 ELSE 1

C22_Witness ==
    /\ n_exit = Exit(0)
    /\ n_server = "Err"
    /\ n_client = "Ok"


\* C23: for a Standard(h) hint, fetch_hint calls the base handler with hint
\* type h, the same data, the base configuration, the base providers and the
\* same store; it makes no Celestia or Blobstream call and no store write of
\* its own, and it returns Ok exactly when the base handler returns Ok.
C23_StandardIsDelegated ==
    f_op = "fetch_hint: Standard" =>
        /\ f_out.call.hint = [ty |-> f_in.hint.ty.inner, data |-> f_in.hint.data]
        /\ f_out.call.cfg = f_in.cfg.single_host
        /\ f_out.call.providers = f_in.providers.inner_providers
        /\ f_out.call.kv = f_in.kv
        /\ f_out.rpcs = <<>>
        /\ f_out.store = f_out.base.store
        /\ f_out.result = "Ok" <=> f_out.base.result = "Ok"

C23_Witness ==
    /\ f_op = "fetch_hint: Standard"
    /\ f_in.hint.ty = Standard("L1Blob")
    /\ f_out.base.result = "Err"
    /\ f_out.result = "Err"
    /\ f_out.store = f_in.kv
    /\ f_in.kv # <<>>


\* C24: blob_get sends one hint, of type CelestiaDA with the 40 bytes
\* height_le || commitment as data, and then makes one preimage read, under
\* keccak256(data) / GlobalGeneric; the read is made only after the send has
\* completed, and the result is what the checks make of the arguments and
\* the bytes read.
C24_OneHintThenOneRead ==
    /\ [](g_hint # NoHint =>
            /\ g_hint = [ty |-> "CelestiaDA",
                         data |-> LowBytes(g_req.height, 8) \o as_bytes(g_req.commitment)]
            /\ Len(g_hint.data) = 40
            /\ blob_get_key(g_req.height, g_req.commitment)
                  = [ty |-> "GlobalGeneric", hash |-> <<"keccak256", g_hint.data>>])
    /\ [](g_read # NoResult =>
            /\ g_hint # NoHint
            /\ g_pc = "done"
            /\ g_result \in blob_get(g_req.height, g_req.commitment, g_read))
    /\ []((g_pc = "done" /\ g_read = NoResult) => g_result.kind = "Err")
    /\ [][g_hint' # g_hint => (g_hint = NoHint /\ g_read = NoResult /\ g_read' = NoResult)]_vars
    /\ [][g_read' # g_read => (g_read = NoResult /\ g_hint # NoHint /\ g_hint' = g_hint)]_vars

C24_Witness ==
    /\ g_pc = "done"
    /\ g_hint # NoHint
    /\ g_read.kind = "Ok"
    /\ g_result.kind = "Ok"
    /\ g_req = [height |-> 43, commitment |-> "cB"]


\* C25: for a 43-byte pointer record with byte[2] = 0x0c, the (height,
\* commitment) the host decodes from the 40 bytes of hint data is the pair
\* the adapter parsed from the pointer, u64_le(pointer[3..11]) and
\* pointer[11..43], which the guest encoded into the hint.
C25_HostDecodesPointerPair ==
    f_op = "pointer to hint" =>
        /\ Len(f_in.pointer) = 43 /\ f_in.pointer[3] = 12
        /\ f_out.parsed.height = from_le_bytes(SubSeq(f_in.pointer, 4, 11))
        /\ as_bytes(f_out.parsed.commitment) = SubSeq(f_in.pointer, 12, 43)
        /\ f_out.hint.data = SubSeq(f_in.pointer, 4, 43)
        /\ f_out.decoded = f_out.parsed

C25_Witness ==
    /\ f_op = "pointer to hint"
    /\ f_out.decoded = [height |-> 16777216 + 42, commitment |-> "cB"]


\* C26: for every hint h of HintWrapper, every Standard(s) of the base
\* alphabet and CelestiaDA, parsing the rendered text gives h back.
C26_HintRoundTrip ==
    f_op = "HintWrapper: Display" => f_out.parsed = Ok(f_in)

C26_Witness ==
    /\ f_op = "HintWrapper: Display"
    /\ f_in = CelestiaDA
    /\ f_out.text = "celestia-da"
    /\ f_out.parsed = Ok(CelestiaDA)

\* C27: from_str tries the base alphabet first, then the literal token
\* celestia-da, and otherwise fails with a parsing error; celestia-da never
\* parses as a Standard hint and no other string parses as CelestiaDA.
C27_ParseOrder ==
    f_op = "HintWrapper: from_str" =>
        /\ f_out.base.kind = "Ok" => f_out.parsed = Ok(Standard(f_out.base.value))
        /\ (f_out.base.kind # "Ok" /\ f_in = "celestia-da") => f_out.parsed = Ok(CelestiaDA)
        /\ (f_out.base.kind # "Ok" /\ f_in # "celestia-da") => f_out.parsed.kind = "Err"
        /\ f_in = "celestia-da" => f_out.parsed = Ok(CelestiaDA)
        /\ f_out.parsed = Ok(CelestiaDA) => f_in = "celestia-da"

C27_Witness ==
    /\ f_op = "HintWrapper: from_str"
    /\ f_in = "celestia-da"
    /\ f_out.base.kind = "Err"
    /\ f_out.parsed = Ok(CelestiaDA)


C29_DecodeRejectsInexact ==
    f_op = "OraclePayload: from_bytes" =>
        (f_out.kind = "Ok" <=> f_in.bytes = f_in.encoding)


\* C30: for every mapping slot n and key k, calculate_mapping_slot(n, k) is
\* keccak256 of the 64 bytes be32(k) || be32(n), the key first and the slot
\* second, each a 32-byte big-endian integer; the slot of the Blobstream
\* data-commitments mapping is 254.
C30_MappingSlot ==
    f_op = "calculate_mapping_slot" =>
        LET be32(x) == [i \in 1..32 |->
                           IF i <= 28 THEN 0 ELSE (x \div (256 ^ (32 - i))) % 256]
        IN  /\ f_out.slot =
                   <<"keccak256", be32(f_in.key) \o be32(f_in.mapping_slot)>>
            /\ Len(f_out.slot[2]) = 64
            /\ f_out.data_commitments =
                   <<"keccak256", be32(f_in.key) \o be32(254)>>

C30_Witness ==
    /\ f_op = "calculate_mapping_slot"
    /\ f_in = [mapping_slot |-> 254, key |-> 16777216 + 42]
    /\ f_out.slot = <<"keccak256", Fill(28, 0) \o <<1, 0, 0, 42>>
                                    \o Fill(28, 0) \o <<0, 0, 0, 254>> >>
    /\ f_out.slot = f_out.data_commitments


\* C31: for every height h and 32-byte data root r, encode_data_root_tuple(h, r)
\* has length 64, bytes [0..24] are zero, bytes [24..32] are h in big-endian
\* and bytes [32..64] are r, in the host's copy and in the guest's copy.
C31_TupleEncoding ==
    f_op = "encode_data_root_tuple" =>
        \A t \in {f_out.host, f_out.guest} :
            /\ Len(t) = 64
            /\ \A i \in 1..24 : t[i] = 0
            /\ \A i \in 25..28 : t[i] = 0
            /\ \A i \in 29..32 : t[i] = (f_in.height \div (256 ^ (32 - i))) % 256
            /\ SubSeq(t, 33, 64) = as_bytes(f_in.data_root)

C31_Witness ==
    /\ f_op = "encode_data_root_tuple"
    /\ f_in = [height |-> 16777216 + 42, data_root |-> "R2"]
    /\ f_out.host = Fill(28, 0) \o <<1, 0, 0, 42>> \o Fill(32, 2)


\* C32: the chain-id registry returns a chain for exactly the ids 1, 42161,
\* 8453, 11155111, 421614 and 84532 and None for every other id; id 1 maps
\* to the Blobstream address 0x7Cf3876F681Dbb6EdA8f6FfC45D66B996Df08fAe; and
\* create_providers fails when the settlement chain's id is not in the table.
C32_ChainRegistry ==
    /\ f_op = "ChainId::from_u64" =>
           /\ f_out.chain # None
                  <=> f_in \in {1, 42161, 8453, 11155111, 421614, 84532}
           /\ f_in = 1 =>
                  f_out.address = "0x7Cf3876F681Dbb6EdA8f6FfC45D66B996Df08fAe"
           /\ f_out.chain # None => <<f_out.chain, f_in>> \in ChainId
    /\ f_op = "create_providers" =>
           /\ (/\ f_in.env.chain_id.kind = "Ok"
               /\ f_in.env.chain_id.value
                      \notin {1, 42161, 8453, 11155111, 421614, 84532})
                  => f_out.kind # "Ok"
           /\ f_out.kind = "Err" /\ f_out.msg = "Unknown chain id for blobstream address"
                  => f_in.env.chain_id.value
                         \notin {1, 42161, 8453, 11155111, 421614, 84532}

C32_Witness ==
    /\ f_op = "create_providers"
    /\ f_in.env.chain_id = Ok(999)
    /\ f_in.cfg.namespace = "0a0b"
    /\ f_out = Err("Unknown chain id for blobstream address")


\* C33: blob_get returns the blob only if the payload's storage_root is the
\* storage root the Blobstream contract has at a block of the settlement
\* chain; a payload whose storage_root and storage_proof agree with each
\* other, but whose storage_root belongs to no settlement-chain block, is
\* rejected.
C33_StorageRootIsBound ==
    GuestReturnedOk =>
        \E head \in LatestBlocks : GuestPayload.storage_root = StorageRootAt(head)


\* C34: the Celestia source's queue never holds more than one blob, and
\* between two clear() calls blob_get is called at most once: a call is made
\* only while open is false and leaves open true, whether the fetch
\* succeeded or failed; open stays true until clear(); and while open is true
\* every next on a pointer record returns a temporary Eof without a fetch,
\* whatever height and commitment the record names.
C34_OneFetchBetweenClears ==
    /\ [](Len(a_data) <= 1)
    /\ []((NextReturned /\ a_calls # <<>>) =>
              /\ ~a_prev.open
              /\ Len(a_calls) = 1
              /\ a_open \/ a_result.kind = "Panic")
    /\ []((NextReturned /\ a_prev.open) =>
              /\ a_calls = <<>>
              /\ a_fetched = NoResult
              /\ a_open
              /\ IsCelestiaPointer(a_record) => a_result = Temporary("Eof"))
    /\ [][(a_open /\ ~a_open') => (a_result' = NoResult /\ a_prev'.cleared)]_vars

C34_Witness ==
    /\ a_nexts >= 2
    /\ a_prev.open
    /\ a_open
    /\ IsCelestiaPointer(a_record)
    /\ a_record.value = Pointer(43, "cB")
    /\ a_calls = <<>>
    /\ a_result = Temporary("Eof")


\* one find_data_commitment call alone.  It is one sequential async
\* function: once it is called, and while its RPC endpoint answers or fails,
\* it takes its next turn
ScanNext == ScanStart \/ ScanWindow

SpecScan == InitFn /\ [][ScanNext]_vars /\ WF_vars(ScanWindow)

\* C35: find_data_commitment terminates for every latest block number and
\* every set of logs: from one filter call to the next the window start
\* strictly decreases and the next window ends where the last began, the
\* scan returns after the window that starts at block 0, and it makes at
\* most ceil(latest / 5000) + 1 filter calls.
C35_ScanTerminates ==
    /\ (s_pc = "scan") ~> (s_pc = "done")
    /\ [][(s_pc = "scan" /\ s_pc' = "scan") =>
              (s_start' < s_start /\ s_end' = s_start)]_vars
    /\ [][(s_pc = "scan" /\ s_start = 0) => s_pc' = "done"]_vars
    /\ []((s_pc = "done" /\ s_result = NoMatch) =>
              s_windows[Len(s_windows)].from_block = 0)
    /\ [](Len(s_windows) <= (s_head + FILTER_BLOCK_RANGE - 1) \div FILTER_BLOCK_RANGE + 1)

C35_Witness ==
    /\ s_pc = "done"
    /\ s_result = NoMatch
    /\ s_head = 10001
    /\ s_windows = <<[from_block |-> 5001, to_block |-> 10001],
                     [from_block |-> 1, to_block |-> 5001],
                     [from_block |-> 0, to_block |-> 1]>>


\* C36: next does not abort on any record the base source returns: for a
\* record shorter than 3 bytes, and for a record with byte[2] = 0x0c that is
\* shorter than 43 bytes, it returns an error value, not a panic, and calls
\* blob_get for neither.
C36_ShortRecordIsErr ==
    (/\ NextReturned
     /\ a_record.kind = "Ok"
     /\ \/ Len(a_record.value) < 3
        \/ a_record.value[3] = 12 /\ Len(a_record.value) < 43) =>
        /\ a_result.kind = "Err"
        /\ a_calls = <<>>


\* C37: the host's share-range arithmetic neither underflows nor divides by
\* zero: for every blob index and every number of row roots, index 0 and an
\* empty row-root list included, ceil_div(index, eds_size) - 1 and
\* index - first_row * ods_size are computed without a panic and without
\* wrapping, so the start index is not above the blob's index.
C37_ShareRangeArithmetic ==
    f_op \in {"share_range", "share_range: no row roots"} =>
        /\ f_out.kind = "Ok"
        /\ f_out.value.start_index <= f_in.index


C39_CopiesAgree ==
    /\ payload_DATA_COMMITMENTS_SLOT = DATA_COMMITMENTS_SLOT
    /\ f_op = "host copy, guest copy" => f_out.host = f_out.guest

C39_Witness ==
    /\ f_op = "host copy, guest copy"
    /\ f_in.fn = "verify_data_commitment_storage"
    /\ f_in.args.storage_proof = [root |-> "S1", nonce |-> 1, stored |-> "D1"]
    /\ f_in.args.root = "S1"
    /\ f_in.args.commitment_nonce = 1
    /\ f_in.args.expected_commitment = "D1"
    /\ f_out = [host |-> TRUE, guest |-> TRUE]

====
